---- MODULE Spec2Model ----
(***************************************************************************)
(* Luhmann note identifiers of the ob-zk plugin: the two revisions of the  *)
(* parser and comparator of utils.ts, the letter increment, the id         *)
(* generator of the later view (view.ts) and of the earlier view, the      *)
(* link tree builders of main.ts and of the link graph view, the           *)
(* collapsing of list entries, the debounced refresh, the renaming of      *)
(* notes and the list of the files opened last.                            *)
(*                                                                         *)
(* A string is a sequence of one-character strings: "a1.1" is              *)
(* <<"a", "1", ".", "1">>.                                                 *)
(***************************************************************************)
EXTENDS Integers, Sequences, FiniteSets, TLC

VARIABLES
  name,      \* the filename handed to parseZettelId
  parseCall, \* the last parseZettelId call on name: which revision, and its result
  ida, idb,  \* two parsed identifiers (first revision) handed to compareZettelIds
  cmpCall,   \* the last compareZettelIds call on ida, idb
  letters,   \* the letter run handed to getNextLetterSequence
  nextCall,  \* the last getNextLetterSequence call on letters
  files,     \* the vault: the basenames of its markdown files
  zettelCache, \* the later view's sorted list of the parsed notes
  genCall,   \* the last generateChildId call of the later view
  ops,       \* how many notes the user has created, indented or outdented
  oldCall,   \* the last getNextChildId call of the earlier view
  links,     \* metadataCache.resolvedLinks: the pairs <<source, target>> of linked files
  keyOrder,  \* the files in the order of the keys of resolvedLinks
  settings,  \* the plugin settings the tree builder reads: rootFile, sortOrder
  tree,      \* the tree buildZettelkastenTree returned last
  collapsedIds, \* the view's set of collapsed ids
  shown,     \* the files renderZettelList listed last
  rebuild,   \* the last refresh of the link view after a change of the vault
  now,       \* the time, in ticks of 50 ms
  timers,    \* the pending setTimeout timers: handle and time due
  refreshTimeout, \* the handle the view keeps of its debounce timer, 0 for null
  isRefreshing,   \* the view's flag that a refresh is running
  running,   \* how many performRefresh calls are executing
  pending,   \* the change notifications the event loop has not yet delivered
  log,       \* what the refreshes did so far: calls, runs, how the last run ended
  recentFiles, \* the paths of the files opened last, latest first
  moveCall   \* the last indentNote, outdentNote or renameId call and what it renamed

vars == <<name, parseCall, ida, idb, cmpCall, letters, nextCall, files, zettelCache, genCall, ops,
          oldCall, links, keyOrder, settings, tree, collapsedIds, shown, rebuild,
          now, timers, refreshTimeout, isRefreshing, running, pending, log, recentFiles, moveCall>>

refreshVars == <<now, timers, refreshTimeout, isRefreshing, running, pending, log>>

(***************************************************************************)
(* Characters                                                              *)
(***************************************************************************)
Lower == <<"a", "b", "c", "d", "e", "f", "g", "h", "i", "j", "k", "l", "m",
           "n", "o", "p", "q", "r", "s", "t", "u", "v", "w", "x", "y", "z">>

Digits == <<"0", "1", "2", "3", "4", "5", "6", "7", "8", "9">>

LowerSet == {Lower[i] : i \in 1..26}

DigitSet == {Digits[i] : i \in 1..10}

\* /[a-z]/ and /\d/ on one character
IsLower(c) == c \in LowerSet

IsDigit(c) == c \in DigitSet

\* String.prototype.charCodeAt for the characters of the model
charCodeAt(c) ==
  IF c \in LowerSet THEN 96 + (CHOOSE i \in 1..26 : Lower[i] = c)
  ELSE IF c \in DigitSet THEN 47 + (CHOOSE i \in 1..10 : Digits[i] = c)
  ELSE IF c = "." THEN 46
  ELSE IF c = "-" THEN 45
  ELSE IF c = "/" THEN 47
  ELSE IF c = "A" THEN 65
  ELSE IF c = " " THEN 32
  ELSE 123  \* "{"

\* String.fromCharCode, for the codes the increments can produce
fromCharCode(n) ==
  IF n \in 97..122 THEN Lower[n - 96]
  ELSE IF n \in 48..57 THEN Digits[n - 47]
  ELSE IF n = 47 THEN "/"
  ELSE "{"

\* the characters the dot of a regular expression does not match
LineTerminators == {"\n", "\r"}

(***************************************************************************)
(* Strings                                                                 *)
(***************************************************************************)
RECURSIVE Concat(_)
\* Array.prototype.join('') of a list of strings
Concat(ss) == IF ss = <<>> THEN <<>> ELSE Head(ss) \o Concat(Tail(ss))

RECURSIVE parseInt(_)
\* parseInt of a run of decimal digits
parseInt(ds) ==
  IF ds = <<>> THEN 0
  ELSE 10 * parseInt(SubSeq(ds, 1, Len(ds) - 1)) + (charCodeAt(ds[Len(ds)]) - 48)

RECURSIVE toString(_)
\* Number.prototype.toString of a natural number
toString(n) ==
  IF n < 10 THEN <<Digits[n + 1]>>
  ELSE toString(n \div 10) \o <<Digits[(n % 10) + 1]>>

\* all strings over the characters cs of length lo..hi
StringsOver(cs, lo, hi) == UNION {[1..n -> cs] : n \in lo..hi}

\* filename.replace(/\.md$/, '')
StripMd(s) ==
  IF Len(s) >= 3 /\ SubSeq(s, Len(s) - 2, Len(s)) = <<".", "m", "d">>
  THEN SubSeq(s, 1, Len(s) - 3)
  ELSE s

\* the ends j of the non-empty runs s[i+1..j] of characters of one class
\* (cls = "digit": \d+, cls = "lower": [a-z]+), every end backtracking may try
RunEnds(s, i, cls) ==
  {j \in (i + 1)..Len(s) :
     \A k \in (i + 1)..j : IF cls = "digit" THEN IsDigit(s[k]) ELSE IsLower(s[k])}

\* the ends of one group \d+(?:\.\d+)?[a-z]* that starts after position i
GroupEnds(s, i) ==
  UNION {
    LET dotted == IF d < Len(s) /\ s[d + 1] = "."
                  THEN RunEnds(s, d + 1, "digit") ELSE {}
    IN  UNION {{l} \cup RunEnds(s, l, "lower") : l \in {d} \cup dotted}
    : d \in RunEnds(s, i, "digit")}

RECURSIVE GroupsEnds(_, _, _)
\* the ends of (?:\d+(?:\.\d+)?[a-z]*)* from the positions of `from`
GroupsEnds(s, from, n) ==
  LET more == from \cup UNION {GroupEnds(s, i) : i \in from}
  IN  IF n = 0 \/ more = from THEN from ELSE GroupsEnds(s, more, n - 1)

\* the ends of the capture [a-z](?:\d+(?:\.\d+)?[a-z]*)*(?:\.\d+)? anchored at ^
IdEnds(s) ==
  IF s = <<>> \/ ~IsLower(s[1]) THEN {}
  ELSE UNION {
         {g} \cup (IF g < Len(s) /\ s[g + 1] = "."
                   THEN RunEnds(s, g + 1, "digit") ELSE {})
         : g \in GroupsEnds(s, {1}, Len(s))}

\* TitleMatches with the hyphen forgotten: (?:.*)?$
TitleMatchesAnySuffix(s, e) ==
  \A k \in (e + 1)..Len(s) : s[k] \notin LineTerminators

\* (?:-.*)?$ after position e: nothing, or a hyphen and any characters but
\* line terminators up to the end of the string
TitleMatches(s, e) ==
  \/ e = Len(s)
  \/ /\ e < Len(s)
     /\ s[e + 1] = "-"
     /\ \A k \in (e + 2)..Len(s) : s[k] \notin LineTerminators

\* String.prototype.startsWith, and the pattern ^${escapeRegex(prefix)}
StartsWith(s, prefix) ==
  Len(s) >= Len(prefix) /\ SubSeq(s, 1, Len(prefix)) = prefix

\* the settings a fresh install has, as far as the tree builder reads them
DEFAULT_SETTINGS == [rootFile |-> <<>>, sortOrder |-> "asc"]

\* the plugin without a link graph: nothing linked, nothing built
\* no indentNote, outdentNote or renameId call yet
NoMove == [fn |-> "none"]

\* no refresh asked for, no file opened yet
NoRefresh ==
  /\ now = 0 /\ timers = {} /\ refreshTimeout = 0 /\ isRefreshing = FALSE
  /\ running = 0 /\ pending = 0 /\ log = [runs |-> 0]
  /\ recentFiles = <<>> /\ moveCall = NoMove

NoLinkGraph ==
  /\ links = {} /\ keyOrder = <<>> /\ settings = DEFAULT_SETTINGS
  /\ tree = [ok |-> FALSE] /\ rebuild = [done |-> FALSE] /\ NoRefresh

\* name.match(pattern): the ends of the capture for which the whole pattern matches
MatchEnds(s) == {e \in IdEnds(s) : TitleMatches(s, e)}

Null == [ok |-> FALSE]

\* /([a-z]|\d+)/g (runs = FALSE) or /([a-z]+|\d+)/g (runs = TRUE) executed over s
RECURSIVE Tokens(_, _, _)
Tokens(s, i, runs) ==
  IF i > Len(s) THEN <<>>
  ELSE IF IsDigit(s[i]) THEN
    LET j == CHOOSE e \in RunEnds(s, i - 1, "digit") :
               \A f \in RunEnds(s, i - 1, "digit") : f <= e
    IN  <<SubSeq(s, i, j)>> \o Tokens(s, j + 1, runs)
  ELSE IF IsLower(s[i]) THEN
    LET j == IF runs
             THEN CHOOSE e \in RunEnds(s, i - 1, "lower") :
                    \A f \in RunEnds(s, i - 1, "lower") : f <= e
             ELSE i
    IN  <<SubSeq(s, i, j)>> \o Tokens(s, j + 1, runs)
  ELSE Tokens(s, i + 1, runs)

RECURSIVE Split(_, _)
\* String.prototype.split(sep) for a one-character separator
Split(s, sep) ==
  IF \A k \in 1..Len(s) : s[k] # sep THEN <<s>>
  ELSE LET p == CHOOSE k \in 1..Len(s) : s[k] = sep /\ \A m \in 1..(k - 1) : s[m] # sep
       IN  <<SubSeq(s, 1, p - 1)>> \o Split(SubSeq(s, p + 1, Len(s)), sep)

\* Array.prototype.indexOf: the first index (from 0) of an element equal to x
indexOf(xs, x) == (CHOOSE k \in 1..Len(xs) : xs[k] = x /\ \A m \in 1..(k - 1) : xs[m] # x) - 1

(***************************************************************************)
(* utils.ts, first revision: parseZettelId keeps "." as a part             *)
(***************************************************************************)
RECURSIVE SegmentParts(_, _)
\* the loop over the segments: the tokens of each segment, then a "." part
\* when segments.indexOf(segment) < segments.length - 1
SegmentParts(segments, k) ==
  IF k > Len(segments) THEN <<>>
  ELSE Tokens(segments[k], 1, FALSE)
       \o (IF indexOf(segments, segments[k]) < Len(segments) - 1 THEN <<<<".">>>> ELSE <<>>)
       \o SegmentParts(segments, k + 1)

RECURSIVE LevelFrom(_, _, _, _)
\* the level loop: level and lastType after parts[1..i-1]
LevelFrom(parts, i, level, lastType) ==
  IF i > Len(parts) THEN level
  ELSE IF parts[i] = <<".">> THEN LevelFrom(parts, i + 1, level + 1, lastType)
  ELSE IF \E k \in 1..Len(parts[i]) : IsDigit(parts[i][k]) THEN
    LevelFrom(parts, i + 1, IF lastType = "letter" THEN level + 1 ELSE level, "digit")
  ELSE
    LevelFrom(parts, i + 1, IF i > 1 /\ lastType = "digit" THEN level + 1 ELSE level, "letter")

parseZettelId(filename) ==
  LET nm == StripMd(filename)
      ends == MatchEnds(nm)
  IN  IF ends = {} THEN Null
      ELSE LET id == SubSeq(nm, 1, CHOOSE e \in ends : \A f \in ends : f <= e)
               parts == SegmentParts(Split(id, "."), 1)
               level == LevelFrom(parts, 1, 0, "letter")
           IN  [ok |-> TRUE, id |-> id, parts |-> parts,
                level |-> IF level > 0 THEN level ELSE 0]

(***************************************************************************)
(* utils.ts, second revision: the dots are not kept in parts               *)
(***************************************************************************)
parseZettelId2(filename) ==
  LET nm == StripMd(filename)
      ends == MatchEnds(nm)
  IN  IF ends = {} THEN Null
      ELSE LET id == SubSeq(nm, 1, CHOOSE e \in ends : \A f \in ends : f <= e)
               parts == Tokens(id, 1, TRUE)
               level == Len(parts) - 1
           IN  [ok |-> TRUE, id |-> id, parts |-> parts,
                level |-> IF level > 0 THEN level ELSE 0]

\* isDigitPart: the first character of the part is a digit
isDigitPart(part) == charCodeAt(part[1]) >= 48 /\ charCodeAt(part[1]) <= 57

RECURSIVE JoinFrom(_, _)
JoinFrom(parts, i) ==
  IF i > Len(parts) THEN <<>>
  ELSE (IF isDigitPart(parts[i - 1]) = isDigitPart(parts[i]) THEN <<".">> ELSE <<>>)
       \o parts[i] \o JoinFrom(parts, i + 1)

\* joinParts: a dot between neighbouring parts of the same kind
joinParts(parts) ==
  IF Len(parts) = 0 THEN <<>>
  ELSE IF Len(parts) = 1 THEN parts[1]
  ELSE parts[1] \o JoinFrom(parts, 2)

(***************************************************************************)
(* Parsing a filename                                                      *)
(***************************************************************************)
MaxNameLen == 6

\* the characters typed into a name: a letter, a digit, the dot, the hyphen
\* that starts the title, and an uppercase letter
NameChars == {"a", "1", ".", "-", "A"}

NoCall == [fn |-> "none", out |-> Null]

InitParse ==
  /\ name = <<>>
  /\ parseCall = NoCall
  /\ ida = Null /\ idb = Null /\ cmpCall = [done |-> FALSE, out |-> 0]
  /\ letters = <<>> /\ nextCall = NoCall
  /\ files = {} /\ zettelCache = <<>> /\ genCall = NoCall /\ ops = 0 /\ oldCall = NoCall
  /\ NoLinkGraph /\ collapsedIds = {} /\ shown = {}

\* one more character of the name
TypeChar ==
  /\ Len(name) < MaxNameLen
  /\ Len(StripMd(name)) = Len(name)
  /\ \E c \in NameChars : name' = Append(name, c)
  /\ parseCall' = NoCall
  /\ UNCHANGED <<ida, idb, cmpCall, letters, nextCall, files, zettelCache, genCall, ops, oldCall, links, keyOrder, settings, tree, collapsedIds, shown, rebuild, refreshVars, recentFiles, moveCall>>

\* the extension of a markdown file, once or twice (a.md, a.md.md)
TypeExtension ==
  /\ Len(name) - Len(StripMd(StripMd(name))) < 6
  /\ name' = name \o <<".", "m", "d">>
  /\ parseCall' = NoCall
  /\ UNCHANGED <<ida, idb, cmpCall, letters, nextCall, files, zettelCache, genCall, ops, oldCall, links, keyOrder, settings, tree, collapsedIds, shown, rebuild, refreshVars, recentFiles, moveCall>>

ParseFirst ==
  /\ parseCall' = [fn |-> "v1", out |-> parseZettelId(name)]
  /\ UNCHANGED <<name, ida, idb, cmpCall, letters, nextCall, files, zettelCache, genCall, ops, oldCall, links, keyOrder, settings, tree, collapsedIds, shown, rebuild, refreshVars, recentFiles, moveCall>>

ParseSecond ==
  /\ parseCall' = [fn |-> "v2", out |-> parseZettelId2(name)]
  /\ UNCHANGED <<name, ida, idb, cmpCall, letters, nextCall, files, zettelCache, genCall, ops, oldCall, links, keyOrder, settings, tree, collapsedIds, shown, rebuild, refreshVars, recentFiles, moveCall>>

NextParse == TypeChar \/ TypeExtension \/ ParseFirst \/ ParseSecond

SpecParse == InitParse /\ [][NextParse]_vars

(***************************************************************************)
(* Claims about parseZettelId                                              *)
(***************************************************************************)
\* the name up to its first hyphen, the extension removed once
BeforeTitle(nm) ==
  LET stem == StripMd(nm)
      hy == {k \in 1..Len(stem) : stem[k] = "-"}
  IN  IF hy = {} THEN stem
      ELSE SubSeq(stem, 1, (CHOOSE k \in hy : \A m \in hy : k <= m) - 1)

\* the identifier grammar read one character at a time: "A" after the first
\* letter, "D1" in the digits of a group, "P" after the dot of a group, "D2" in
\* the digits after a dot, "L" in the letters of a group, "T0" after the dot
\* that follows letters or the first letter, "T" in the last digits
GrammarStep(q, c) ==
  CASE q = "S" /\ IsLower(c) -> "A"
    [] q = "A" /\ IsDigit(c) -> "D1"
    [] q \in {"A", "L", "D2"} /\ c = "." -> "T0"
    [] q = "D1" /\ IsDigit(c) -> "D1"
    [] q = "D1" /\ c = "." -> "P"
    [] q \in {"D1", "D2", "L"} /\ IsLower(c) -> "L"
    [] q = "P" /\ IsDigit(c) -> "D2"
    [] q = "D2" /\ IsDigit(c) -> "D2"
    [] q = "L" /\ IsDigit(c) -> "D1"
    [] q \in {"T0", "T"} /\ IsDigit(c) -> "T"
    [] OTHER -> "X"

RECURSIVE GrammarRun(_, _, _)
GrammarRun(s, i, q) ==
  IF i > Len(s) THEN q ELSE GrammarRun(s, i + 1, GrammarStep(q, s[i]))

IsIdentifier(s) == GrammarRun(s, 1, "S") \in {"A", "D1", "D2", "L", "T"}

DotCount(s) == Cardinality({k \in 1..Len(s) : s[k] = "."})

\* the number of places where, the dots left out, a letter meets a digit
KindChanges(s) ==
  LET t == SelectSeq(s, LAMBDA c : c # ".")
  IN  Cardinality({k \in 1..(Len(t) - 1) : IsDigit(t[k]) # IsDigit(t[k + 1])})

\* C3: the level of a parsed name is the number of dots of its id plus the
\* number of letter/digit changes met reading the id with the dots ignored
C3_LevelCountsDotsAndChanges ==
  (parseCall.fn = "v1" /\ parseCall.out.ok) =>
    parseCall.out.level = DotCount(parseCall.out.id) + KindChanges(parseCall.out.id)

\* C4: the parts, concatenated, give back the id, and parsing the concatenation
\* gives the same parts and level; "." parts stand only where the id has a "."
C4_PartsRebuildId ==
  (parseCall.fn = "v1" /\ parseCall.out.ok) =>
    /\ Concat(parseCall.out.parts) = parseCall.out.id
    /\ parseZettelId(Concat(parseCall.out.parts)).ok
    /\ parseZettelId(Concat(parseCall.out.parts)).parts = parseCall.out.parts
    /\ parseZettelId(Concat(parseCall.out.parts)).level = parseCall.out.level

\* C5: second revision: parse(joinParts(parse(x).parts)) = parse(x) in id, parts
\* and level
C5_JoinRoundTrip ==
  (parseCall.fn = "v2" /\ parseCall.out.ok) =>
    /\ parseZettelId2(joinParts(parseCall.out.parts)).ok
    /\ parseZettelId2(joinParts(parseCall.out.parts)).id = parseCall.out.id
    /\ parseZettelId2(joinParts(parseCall.out.parts)).parts = parseCall.out.parts
    /\ parseZettelId2(joinParts(parseCall.out.parts)).level = parseCall.out.level

(***************************************************************************)
(* utils.ts, first revision: compareZettelIds                              *)
(***************************************************************************)
\* /^\d+$/.test(part)
AllDigits(part) == part # <<>> /\ \A k \in 1..Len(part) : IsDigit(part[k])

\* /^[a-z]$/.test(part)
OneLetter(part) == Len(part) = 1 /\ IsLower(part[1])

RECURSIVE localeCompare(_, _)
\* String.prototype.localeCompare on runs of lowercase letters: alphabetical,
\* a proper prefix first
localeCompare(x, y) ==
  IF x = <<>> /\ y = <<>> THEN 0
  ELSE IF x = <<>> THEN -1
  ELSE IF y = <<>> THEN 1
  ELSE IF charCodeAt(x[1]) < charCodeAt(y[1]) THEN -1
  ELSE IF charCodeAt(x[1]) > charCodeAt(y[1]) THEN 1
  ELSE localeCompare(Tail(x), Tail(y))

RECURSIVE CompareFromDigitsAsText(_, _, _)
\* the loop of compareZettelIds with two digit parts compared as text
CompareFromDigitsAsText(pa, pb, i) ==
  IF i > Len(pa) \/ i > Len(pb) THEN Len(pa) - Len(pb)
  ELSE IF pa[i] = <<".">> /\ pb[i] = <<".">> THEN CompareFromDigitsAsText(pa, pb, i + 1)
  ELSE IF pa[i] = <<".">> THEN -1
  ELSE IF pb[i] = <<".">> THEN 1
  ELSE IF AllDigits(pa[i]) /\ AllDigits(pb[i]) THEN
    IF pa[i] # pb[i] THEN localeCompare(pa[i], pb[i])
    ELSE CompareFromDigitsAsText(pa, pb, i + 1)
  ELSE IF OneLetter(pa[i]) /\ OneLetter(pb[i]) THEN
    IF pa[i] # pb[i] THEN localeCompare(pa[i], pb[i])
    ELSE CompareFromDigitsAsText(pa, pb, i + 1)
  ELSE IF AllDigits(pa[i]) /\ OneLetter(pb[i]) THEN -1
  ELSE IF OneLetter(pa[i]) /\ AllDigits(pb[i]) THEN 1
  ELSE CompareFromDigitsAsText(pa, pb, i + 1)

RECURSIVE CompareFrom(_, _, _)
\* the loop of compareZettelIds from index i (from 1) and the return after it
CompareFrom(pa, pb, i) ==
  IF i > Len(pa) \/ i > Len(pb) THEN Len(pa) - Len(pb)
  ELSE IF pa[i] = <<".">> /\ pb[i] = <<".">> THEN CompareFrom(pa, pb, i + 1)
  ELSE IF pa[i] = <<".">> THEN -1
  ELSE IF pb[i] = <<".">> THEN 1
  ELSE IF AllDigits(pa[i]) /\ AllDigits(pb[i]) THEN
    IF parseInt(pa[i]) # parseInt(pb[i]) THEN parseInt(pa[i]) - parseInt(pb[i])
    ELSE CompareFrom(pa, pb, i + 1)
  ELSE IF OneLetter(pa[i]) /\ OneLetter(pb[i]) THEN
    IF pa[i] # pb[i] THEN localeCompare(pa[i], pb[i])
    ELSE CompareFrom(pa, pb, i + 1)
  ELSE IF AllDigits(pa[i]) /\ OneLetter(pb[i]) THEN -1
  ELSE IF OneLetter(pa[i]) /\ AllDigits(pb[i]) THEN 1
  ELSE CompareFrom(pa, pb, i + 1)

\* compareZettelIds with the last line returning 0: the length rule forgotten
compareZettelIdsNoLengthRule(a, b) ==
  LET n == IF Len(a.parts) < Len(b.parts) THEN Len(a.parts) ELSE Len(b.parts)
  IN  CompareFrom(SubSeq(a.parts, 1, n), SubSeq(b.parts, 1, n), 1)

compareZettelIds(a, b) == CompareFrom(a.parts, b.parts, 1)

(***************************************************************************)
(* Comparing two parsed identifiers                                        *)
(***************************************************************************)
MaxIdLen == 4

\* the characters of the identifiers compared: two letters, two digits of
\* which one is the zero, the dot
IdChars == {"a", "b", "0", "1", "."}

\* the corpus the identifiers are drawn from: every name over IdChars that
\* parseZettelId accepts
IdPool == {parseZettelId(n) : n \in StringsOver(IdChars, 1, MaxIdLen)} \ {Null}

NoCompare == [done |-> FALSE, out |-> 0]

InitCompare ==
  /\ ida \in IdPool /\ idb \in IdPool
  /\ cmpCall = NoCompare
  /\ name = <<>> /\ parseCall = NoCall
  /\ letters = <<>> /\ nextCall = NoCall
  /\ files = {} /\ zettelCache = <<>> /\ genCall = NoCall /\ ops = 0 /\ oldCall = NoCall
  /\ NoLinkGraph /\ collapsedIds = {} /\ shown = {}

Compare ==
  /\ ~cmpCall.done
  /\ cmpCall' = [done |-> TRUE, out |-> compareZettelIds(ida, idb)]
  /\ UNCHANGED <<name, parseCall, ida, idb, letters, nextCall, files, zettelCache, genCall, ops, oldCall, links, keyOrder, settings, tree, collapsedIds, shown, rebuild, refreshVars, recentFiles, moveCall>>

NextCompare == Compare

SpecCompare == InitCompare /\ [][NextCompare]_vars

Sign(n) == IF n < 0 THEN -1 ELSE IF n > 0 THEN 1 ELSE 0

\* the parts with every digit part written without leading zeros
SameNumbers(parts) ==
  [k \in 1..Len(parts) |->
     IF AllDigits(parts[k]) THEN toString(parseInt(parts[k])) ELSE parts[k]]

\* for every identifier of the pool, how many identifiers of the pool
\* compareZettelIds puts before it
Rank == [x \in IdPool |-> Cardinality({c \in IdPool : compareZettelIds(c, x) < 0})]

\* reflexive; the two directions of opposite sign; transitive: a relation on a
\* finite set is transitive (before and equal alike) exactly when it orders
\* every pair as the numbers of elements before each of the two
C1_Order ==
  /\ compareZettelIds(ida, ida) = 0
  /\ Sign(compareZettelIds(idb, ida)) = -Sign(cmpCall.out)
  /\ Sign(cmpCall.out) = Sign(Rank[ida] - Rank[idb])

\* C1 (as claimed): compareZettelIds is a strict total order on the parsed
\* identifiers: reflexive, antisymmetric, transitive, and 0 only for one and the
\* same id string
C1_StrictTotalOrder ==
  cmpCall.done =>
    /\ C1_Order
    /\ cmpCall.out = 0 => ida.id = idb.id

\* C1 (amended): compareZettelIds is a total preorder on the parsed identifiers:
\* reflexive, antisymmetric in sign, transitive, and 0 exactly when the two have
\* the same parts up to the leading zeros of their digit parts
C1_TotalPreorder ==
  cmpCall.done =>
    /\ C1_Order
    /\ cmpCall.out = 0 <=> SameNumbers(ida.parts) = SameNumbers(idb.parts)

\* a01 and a1 were compared and found equal
C1_Witness ==
  /\ cmpCall.done
  /\ ida.id = <<"a", "0", "1">>
  /\ idb.id = <<"a", "1">>
  /\ cmpCall.out = 0

(***************************************************************************)
(* getNextLetterSequence: utils.ts (second revision) and the earlier view  *)
(***************************************************************************)
\* 'a'.repeat(n)
RepeatA(n) == [k \in 1..n |-> "a"]

RECURSIVE NextLettersFrom(_, _, _)
\* the loop of the function of utils.ts from index i down, and the return after it
NextLettersFrom(chars, i, len) ==
  IF i = 0 THEN RepeatA(len + 1)
  ELSE IF charCodeAt(chars[i]) < charCodeAt("z")
    THEN [chars EXCEPT ![i] = fromCharCode(charCodeAt(chars[i]) + 1)]
    ELSE NextLettersFrom([chars EXCEPT ![i] = "a"], i - 1, len)

\* getNextLetterSequence without the added letter: zz gives aa
getNextLetterSequenceNoGrowth(ls) ==
  LET r == NextLettersFrom(ls, Len(ls), Len(ls))
  IN  IF Len(r) > Len(ls) THEN Tail(r) ELSE r

getNextLetterSequence(ls) == NextLettersFrom(ls, Len(ls), Len(ls))

RECURSIVE ViewNextLettersFrom(_, _, _)
\* the loop of the method of the earlier view, and the carry after it
ViewNextLettersFrom(result, i, carry) ==
  IF i = 0 \/ ~carry THEN (IF carry THEN <<"a">> \o result ELSE result)
  ELSE IF result[i] = "z"
    THEN ViewNextLettersFrom(
           SubSeq(result, 1, i - 1) \o <<"a">> \o SubSeq(result, i + 1, Len(result)),
           i - 1, TRUE)
    ELSE ViewNextLettersFrom(
           SubSeq(result, 1, i - 1) \o <<fromCharCode(charCodeAt(result[i]) + 1)>>
             \o SubSeq(result, i + 1, Len(result)),
           i - 1, FALSE)

viewGetNextLetterSequence(current) == ViewNextLettersFrom(current, Len(current), TRUE)

(***************************************************************************)
(* Incrementing a letter run                                               *)
(***************************************************************************)
MaxLetters == 3

\* the letters of the runs incremented: the first two and the last two
LetterInputs == {"a", "b", "y", "z"}

InitLetters ==
  /\ letters \in StringsOver(LetterInputs, 1, MaxLetters)
  /\ nextCall = NoCall
  /\ name = <<>> /\ parseCall = NoCall
  /\ ida = Null /\ idb = Null /\ cmpCall = NoCompare
  /\ files = {} /\ zettelCache = <<>> /\ genCall = NoCall /\ ops = 0 /\ oldCall = NoCall
  /\ NoLinkGraph /\ collapsedIds = {} /\ shown = {}

NextLettersUtils ==
  /\ nextCall.fn = "none"
  /\ nextCall' = [fn |-> "utils", out |-> getNextLetterSequence(letters)]
  /\ UNCHANGED <<name, parseCall, ida, idb, cmpCall, letters, files, zettelCache, genCall, ops, oldCall, links, keyOrder, settings, tree, collapsedIds, shown, rebuild, refreshVars, recentFiles, moveCall>>

NextLettersView ==
  /\ nextCall.fn = "none"
  /\ nextCall' = [fn |-> "view", out |-> viewGetNextLetterSequence(letters)]
  /\ UNCHANGED <<name, parseCall, ida, idb, cmpCall, letters, files, zettelCache, genCall, ops, oldCall, links, keyOrder, settings, tree, collapsedIds, shown, rebuild, refreshVars, recentFiles, moveCall>>

NextLetters == NextLettersUtils \/ NextLettersView

SpecLetters == InitLetters /\ [][NextLetters]_vars

\* the next letter of the alphabet
NextLetter(c) == Lower[(CHOOSE i \in 1..26 : Lower[i] = c) + 1]

\* C8: a run of z gives one more letter, all a; any other run keeps its length,
\* its rightmost letter that is not z moves on by one, the letters right of it
\* become a and the letters left of it stay
C8_NextLetterSequence ==
  nextCall.fn # "none" =>
    LET notZ == {k \in 1..Len(letters) : letters[k] # "z"}
    IN  IF notZ = {} THEN nextCall.out = RepeatA(Len(letters) + 1)
        ELSE LET p == CHOOSE k \in notZ : \A m \in notZ : m <= k
             IN  /\ Len(nextCall.out) = Len(letters)
                 /\ nextCall.out[p] = NextLetter(letters[p])
                 /\ \A k \in (p + 1)..Len(letters) : nextCall.out[k] = "a"
                 /\ \A k \in 1..(p - 1) : nextCall.out[k] = letters[k]

\* zz was incremented by the function of utils.ts and gave aaa
C8_Witness ==
  /\ nextCall.fn = "utils"
  /\ letters = <<"z", "z">>
  /\ nextCall.out = <<"a", "a", "a">>

(***************************************************************************)
(* utils.ts, second revision: compareZettelIds on parts, getMaxChild       *)
(***************************************************************************)
RECURSIVE Compare2From(_, _, _)
\* the loop of compareZettelIds from index i (from 1) and the return after it
Compare2From(a, b, i) ==
  IF i > Len(a) \/ i > Len(b) THEN Len(a) - Len(b)
  ELSE IF isDigitPart(a[i]) /\ isDigitPart(b[i]) THEN
    IF parseInt(a[i]) # parseInt(b[i]) THEN parseInt(a[i]) - parseInt(b[i])
    ELSE Compare2From(a, b, i + 1)
  ELSE IF ~isDigitPart(a[i]) /\ ~isDigitPart(b[i]) THEN
    IF a[i] # b[i] THEN localeCompare(a[i], b[i])
    ELSE Compare2From(a, b, i + 1)
  ELSE IF isDigitPart(a[i]) /\ ~isDigitPart(b[i]) THEN -1
  ELSE 1

compareZettelIds2(a, b) == Compare2From(a, b, 1)

\* Array.prototype.slice(0, -n)
DropLast(xs, n) == SubSeq(xs, 1, Len(xs) - n)

RECURSIVE MaxChildFrom(_, _, _, _, _)
\* the loop of getMaxChild from index i (from 1)
MaxChildFrom(sorted, i, currentLevel, currentId, maxChild) ==
  IF i > Len(sorted) THEN maxChild
  ELSE IF sorted[i].level <= currentLevel THEN maxChild
  ELSE IF sorted[i].level # currentLevel + 1
    THEN MaxChildFrom(sorted, i + 1, currentLevel, currentId, maxChild)
  ELSE IF joinParts(DropLast(sorted[i].parts, 1)) = currentId
    THEN MaxChildFrom(sorted, i + 1, currentLevel, currentId,
                      [ok |-> TRUE, node |-> sorted[i]])
  ELSE MaxChildFrom(sorted, i + 1, currentLevel, currentId, maxChild)

getMaxChild(sortedZettelNodes, currentNode) ==
  LET currentId == joinParts(currentNode.parts)
      found == {k \in 1..Len(sortedZettelNodes) :
                  joinParts(sortedZettelNodes[k].parts) = currentId}
  IN  IF found = {} THEN Null
      ELSE MaxChildFrom(sortedZettelNodes,
                        (CHOOSE k \in found : \A m \in found : k <= m) + 1,
                        currentNode.level, currentId, Null)

(***************************************************************************)
(* view.ts, second revision: getAllZettels, generateChildId, the notes     *)
(* created and renamed with the ids it returns                             *)
(***************************************************************************)
\* the node getAllZettels maps a file to
ZettelNode(basename) ==
  LET parsed == parseZettelId2(basename)
  IN  [file |-> basename,
       id |-> IF parsed.ok THEN parsed.id ELSE <<>>,
       parts |-> IF parsed.ok THEN parsed.parts ELSE <<>>,
       level |-> IF parsed.ok THEN parsed.level ELSE 0]

RECURSIVE SortedSeqs(_)
\* Array.prototype.sort with compareZettelIds: every arrangement in which no
\* node stands before one that compares smaller; nodes that compare equal keep
\* the order the vault lists them in, which is any order
SortedSeqs(nodes) ==
  IF nodes = {} THEN {<<>>}
  ELSE UNION {
         {<<m>> \o t : t \in SortedSeqs(nodes \ {m})}
         : m \in {x \in nodes : \A y \in nodes : compareZettelIds2(y.parts, x.parts) >= 0}}

\* getAllZettels on an empty cache: the parsed notes of the vault, sorted
getAllZettels(vault) ==
  SortedSeqs({z \in {ZettelNode(f) : f \in vault} : Len(z.parts) > 0})

\* the token after lastPart: the next number, or the next letter sequence
NextPart(lastPart) ==
  IF isDigitPart(lastPart) THEN toString(parseInt(lastPart) + 1)
  ELSE getNextLetterSequence(lastPart)

\* generateChildParts with 'a' as the first child of every parent
generateChildPartsFirstA(allZettels, parent) ==
  IF Len(parent.parts) = 0 THEN <<<<"a">>>>
  ELSE LET maxChild == getMaxChild(allZettels, parent)
       IN  IF maxChild.ok
           THEN Append(parent.parts, NextPart(maxChild.node.parts[Len(maxChild.node.parts)]))
           ELSE Append(parent.parts, <<"a">>)

\* the parts generateChildId joins: newParts, or the one part it returns for
\* the virtual top-level parent
generateChildParts(allZettels, parent) ==
  IF Len(parent.parts) = 0 THEN
    LET topLevelNodes == SelectSeq(allZettels, LAMBDA z : z.level = 0)
    IN  IF Len(topLevelNodes) > 0
        THEN <<NextPart(topLevelNodes[Len(topLevelNodes)].parts[1])>>
        ELSE <<<<"a">>>>
  ELSE
    LET maxChild == getMaxChild(allZettels, parent)
    IN  IF maxChild.ok
        THEN Append(parent.parts, NextPart(maxChild.node.parts[Len(maxChild.node.parts)]))
        ELSE Append(parent.parts,
                    IF isDigitPart(parent.parts[Len(parent.parts)]) THEN <<"a">> ELSE <<"1">>)

generateChildId(allZettels, parent) == joinParts(generateChildParts(allZettels, parent))

\* String.prototype.trim for the whitespace of the model, the space
RECURSIVE Trim(_)
Trim(s) ==
  IF s = <<>> THEN s
  ELSE IF s[1] = " " THEN Trim(Tail(s))
  ELSE IF s[Len(s)] = " " THEN Trim(DropLast(s, 1))
  ELSE s

\* renameId taking the title after the last hyphen
RenamedBasenameLastDash(zettel, newId) ==
  LET basename == zettel.file
      dashes == {k \in 1..Len(basename) : basename[k] = "-"}
      dashIndex == IF dashes = {} THEN -1
                   ELSE (CHOOSE k \in dashes : \A m \in dashes : m <= k) - 1
      title == IF dashIndex > 0
               THEN Trim(SubSeq(basename, dashIndex + 2, Len(basename)))
               ELSE Trim(SubSeq(basename, Len(zettel.id) + 1, Len(basename)))
  IN  IF title # <<>> THEN newId \o <<"-">> \o title ELSE newId \o <<"-">>

\* the basename handleFileDrop gives the dragged file for newId
DroppedBasename(basename, newId) ==
  LET dashes == {k \in 1..Len(basename) : basename[k] = "-"}
      dashIndex == IF dashes = {} THEN -1
                   ELSE (CHOOSE k \in dashes : \A m \in dashes : k <= m) - 1
      parsed == parseZettelId2(basename)
      title == IF dashIndex > 0
               THEN Trim(SubSeq(basename, dashIndex + 2, Len(basename)))
               ELSE IF parsed.ok
               THEN Trim(SubSeq(basename, Len(parsed.id) + 1, Len(basename)))
               ELSE basename
  IN  IF title # <<>> THEN newId \o <<"-">> \o title ELSE newId \o <<"-">>

\* the basename renameId gives the file of zettel for newId
RenamedBasename(zettel, newId) ==
  LET basename == zettel.file
      dashes == {k \in 1..Len(basename) : basename[k] = "-"}
      dashIndex == IF dashes = {} THEN -1
                   ELSE (CHOOSE k \in dashes : \A m \in dashes : k <= m) - 1
      title == IF dashIndex > 0
               THEN Trim(SubSeq(basename, dashIndex + 2, Len(basename)))
               ELSE Trim(SubSeq(basename, Len(zettel.id) + 1, Len(basename)))
  IN  IF title # <<>> THEN newId \o <<"-">> \o title ELSE newId \o <<"-">>

\* getPrevSibling: the nearest earlier node of the same level and parent
getPrevSibling(sortedZettels, currentNode) ==
  LET parentId == joinParts(DropLast(currentNode.parts, 1))
      found == {k \in 1..Len(sortedZettels) : sortedZettels[k].id = currentNode.id}
      currentIndex == IF found = {} THEN 0 ELSE CHOOSE k \in found : \A m \in found : k <= m
      cands == {k \in 1..(currentIndex - 1) :
                  /\ sortedZettels[k].level = currentNode.level
                  /\ joinParts(DropLast(sortedZettels[k].parts, 1)) = parentId}
  IN  IF cands = {} THEN Null
      ELSE [ok |-> TRUE, node |-> sortedZettels[CHOOSE k \in cands : \A m \in cands : m <= k]]

\* the virtual top-level node outdentNote builds
VirtualTop == [file |-> <<>>, id |-> <<>>, parts |-> <<>>, level |-> -1]

(***************************************************************************)
(* Listing the notes: collapsed ids hide the entries below them            *)
(***************************************************************************)
\* shouldHide of renderZettelList: an entry below the top level is skipped
\* when its id starts with a collapsed id and is not that id
shouldHide(zettel, collapsed) ==
  /\ zettel.level > 0
  /\ \E collapsedId \in collapsed :
       StartsWith(zettel.id, collapsedId) /\ zettel.id # collapsedId

\* renderZettelList(container, zettels): the files of the entries listed
renderZettelList(zettels, collapsed) ==
  {zettels[k].file : k \in {m \in 1..Len(zettels) : ~shouldHide(zettels[m], collapsed)}}

(***************************************************************************)
(* Creating, indenting and outdenting notes                                *)
(***************************************************************************)
MaxInitFiles == 2

MaxOps == 2

\* the basenames a vault starts from
GenNames ==
  { <<"a">>, <<"z">>, <<"a", "1">>, <<"a", "0", "1">>, <<"a", "1", "z">>,
    <<"a", "1", ".", "1">>, <<"a", "1", ".", "1", ".", "1">>,
    <<"a", "2", "-", "A">> }

InitGen ==
  /\ files \in {v \in SUBSET GenNames : Cardinality(v) \in 1..MaxInitFiles}
  /\ zettelCache \in getAllZettels(files)
  /\ genCall = NoCall /\ ops = 0
  /\ name = <<>> /\ parseCall = NoCall
  /\ ida = Null /\ idb = Null /\ cmpCall = NoCompare
  /\ letters = <<>> /\ nextCall = NoCall
  /\ oldCall = NoCall
  /\ NoLinkGraph /\ collapsedIds = {}
  /\ shown = renderZettelList(zettelCache, collapsedIds)

\* vault.create or vault.rename went through: the 'create' or 'rename' event
\* refreshes the view, which empties the cache and builds it again
Refreshed(vault) ==
  /\ files' = vault
  /\ zettelCache' \in getAllZettels(vault)
  /\ shown' = renderZettelList(zettelCache', collapsedIds)

\* createChildNote(parent) on a listed note
CreateChildNote ==
  \E k \in 1..Len(zettelCache) :
    LET parent == zettelCache[k]
        nextId == generateChildId(zettelCache, parent)
        newNoteName == nextId \o <<"-">>
    IN  /\ ops < MaxOps /\ ops' = ops + 1
        /\ genCall' = [fn |-> "createChildNote", parent |-> parent, all |-> zettelCache,
                       parts |-> generateChildParts(zettelCache, parent), out |-> nextId]
        /\ IF newNoteName \in files
           THEN UNCHANGED <<files, zettelCache, shown>>  \* vault.create throws, caught
           ELSE Refreshed(files \cup {newNoteName})
        /\ UNCHANGED <<name, parseCall, ida, idb, cmpCall, letters, nextCall, oldCall, links, keyOrder, settings, tree, collapsedIds, rebuild, refreshVars, recentFiles, moveCall>>

\* renameId(zettel, newId): vault.rename to the new basename, which rejects
\* when a file of that name exists, and the refresh after it
Renamed(fn, zettel, target, newId, newBasename) ==
  /\ moveCall' = [fn |-> fn, zettel |-> zettel, target |-> [ok |-> TRUE, node |-> target],
                  newId |-> newId, all |-> zettelCache,
                  renamed |-> IF newBasename \in files THEN Null
                              ELSE [ok |-> TRUE, file |-> newBasename]]
  /\ IF newBasename \in files
     THEN UNCHANGED <<files, zettelCache, shown>>
     ELSE Refreshed((files \ {zettel.file}) \cup {newBasename})

\* the id generateChildId gives for the target is handed to renameId
MovedUnder(fn, zettel, target, newId) ==
  /\ genCall' = [fn |-> fn, parent |-> target, all |-> zettelCache,
                 parts |-> generateChildParts(zettelCache, target), out |-> newId]
  /\ Renamed(fn, zettel, target, newId, RenamedBasename(zettel, newId))

\* the handler returned after its notice: nothing is renamed
NotMoved(fn, zettel) ==
  /\ moveCall' = [fn |-> fn, zettel |-> zettel, target |-> Null, newId |-> <<>>,
                  all |-> zettelCache, renamed |-> Null]
  /\ UNCHANGED <<genCall, files, zettelCache, shown>>

\* the previous sibling found, the note becomes its next child
IndentedUnder(zettel, prevSibling) ==
  IF prevSibling.ok
  THEN MovedUnder("indentNote", zettel, prevSibling.node,
                  generateChildId(zettelCache, prevSibling.node))
  ELSE NotMoved("indentNote", zettel)

\* indentNote(zettel) on a listed note
IndentNote ==
  \E k \in 1..Len(zettelCache) :
    /\ ops < MaxOps /\ ops' = ops + 1
    /\ IndentedUnder(zettelCache[k], getPrevSibling(zettelCache, zettelCache[k]))
    /\ UNCHANGED <<name, parseCall, ida, idb, cmpCall, letters, nextCall, oldCall, links, keyOrder, settings, tree, collapsedIds, rebuild, refreshVars, recentFiles>>

\* the grandparent outdentNote looks up: the note of the parts without the
\* last two, the virtual top-level node when none are left
Grandparent(allZettels, zettel) ==
  LET grandparentParts == DropLast(zettel.parts, 2)
      found == {m \in 1..Len(allZettels) : allZettels[m].id = joinParts(grandparentParts)}
  IN  IF Len(grandparentParts) > 0
      THEN IF found = {} THEN Null
           ELSE [ok |-> TRUE,
                 node |-> allZettels[CHOOSE m \in found : \A n \in found : m <= n]]
      ELSE [ok |-> TRUE, node |-> VirtualTop]

\* the grandparent found, the note becomes its next child
OutdentedUnder(zettel, grandparent) ==
  IF zettel.level # 0 /\ grandparent.ok
  THEN MovedUnder("outdentNote", zettel, grandparent.node,
                  generateChildId(zettelCache, grandparent.node))
  ELSE NotMoved("outdentNote", zettel)

\* outdentNote(zettel) on a listed note
OutdentNote ==
  \E k \in 1..Len(zettelCache) :
    /\ ops < MaxOps /\ ops' = ops + 1
    /\ OutdentedUnder(zettelCache[k], Grandparent(zettelCache, zettelCache[k]))
    /\ UNCHANGED <<name, parseCall, ida, idb, cmpCall, letters, nextCall, oldCall, links, keyOrder, settings, tree, collapsedIds, rebuild, refreshVars, recentFiles>>

NextGen == CreateChildNote \/ IndentNote \/ OutdentNote

SpecGen == InitGen /\ [][NextGen]_vars

(***************************************************************************)
(* Claims about generateChildId                                            *)
(***************************************************************************)
\* the notes of a corpus whose parts are the parent's parts and one more token
DirectChildren(all, parent) ==
  {all[k] : k \in {m \in 1..Len(all) :
                     /\ Len(all[m].parts) = Len(parent.parts) + 1
                     /\ DropLast(all[m].parts, 1) = parent.parts}}

\* C6: an id generated for a parent of the corpus compares above every direct
\* child the parent already has, so that no id of the corpus is returned again
C6_AboveEveryChild ==
  (genCall.fn = "createChildNote" /\ parseZettelId2(genCall.out).ok) =>
    /\ \A z \in DirectChildren(genCall.all, genCall.parent) :
         compareZettelIds2(parseZettelId2(genCall.out).parts, z.parts) > 0
    /\ \A k \in 1..Len(genCall.all) : genCall.all[k].id # genCall.out

\* C7: every id generateChildId returns is accepted by parseZettelId and parses
\* back to the parts it was built from
C7_GeneratedIdParses ==
  genCall.fn # "none" =>
    /\ parseZettelId2(genCall.out).ok
    /\ parseZettelId2(genCall.out).parts = genCall.parts

getParentId(id) ==
  LET parsed == parseZettelId(id)
      parentParts == DropLast(parsed.parts, 1)
  IN  IF ~parsed.ok \/ Len(parsed.parts) <= 1 THEN Null
      ELSE [ok |-> TRUE,
            id |-> Concat(IF parentParts[Len(parentParts)] = <<".">>
                          THEN DropLast(parentParts, 1) ELSE parentParts)]

RECURSIVE PopLastPart(_)
\* the while loop of getNextSiblingId: parts are popped up to and with the
\* last one that is not a dot
PopLastPart(parts) ==
  IF parts = <<>> THEN parts
  ELSE IF parts[Len(parts)] # <<".">> THEN DropLast(parts, 1)
  ELSE PopLastPart(DropLast(parts, 1))

\* the greatest member of a non-empty set of numbers
Max(ns) == CHOOSE n \in ns : \A m \in ns : m <= n

\* the ids of the files that parse, excludeFile left out: the files.forEach
\* loops of getNextSiblingId; excludeFile is a basename, or <<>> for none
SiblingCandidates(vault, excludeFile) ==
  {parseZettelId(f).id : f \in {g \in vault \ {excludeFile} : parseZettelId(g).ok}}

\* the branch of getNextSiblingId for a last part of digits: match[1] of
\* ^parentId(\d+) is the run of digits that follows parentId
NextNumberSibling(parentId, ids) ==
  LET nums == {parseInt(SubSeq(id, Len(parentId) + 1, Max(RunEnds(id, Len(parentId), "digit")))) :
                 id \in {i \in ids : StartsWith(i, parentId)
                                     /\ RunEnds(i, Len(parentId), "digit") # {}}}
      maxNum == Max(nums \cup {0})
  IN  [ok |-> TRUE, id |-> parentId \o toString(maxNum + 1)]

\* the branch of getNextSiblingId for a last part of letters: match[1] of
\* ^parentId([a-z])(?:[\d.]|$) is the letter that follows parentId
NextLetterSibling(parentId, lastPart, ids) ==
  LET chars == {charCodeAt(id[Len(parentId) + 1]) :
                  id \in {i \in ids :
                            /\ StartsWith(i, parentId)
                            /\ Len(i) > Len(parentId)
                            /\ IsLower(i[Len(parentId) + 1])
                            /\ \/ Len(i) = Len(parentId) + 1
                               \/ IsDigit(i[Len(parentId) + 2])
                               \/ i[Len(parentId) + 2] = "."}}
      nextCode == IF chars = {} THEN charCodeAt(lastPart[1]) + 1 ELSE Max(chars) + 1
  IN  IF nextCode <= charCodeAt("z")
      THEN [ok |-> TRUE, id |-> parentId \o <<fromCharCode(nextCode)>>]
      ELSE Null

\* getNextSiblingId once baseId is parsed
NextSiblingOf(parsed, ids) ==
  IF ~parsed.ok THEN Null
  ELSE IF AllDigits(parsed.parts[Len(parsed.parts)])
       THEN NextNumberSibling(Concat(PopLastPart(parsed.parts)), ids)
       ELSE NextLetterSibling(Concat(PopLastPart(parsed.parts)),
                              parsed.parts[Len(parsed.parts)], ids)

\* getNextSiblingId(baseId, excludeFile) over the files of the vault
getNextSiblingId(baseId, vault, excludeFile) ==
  NextSiblingOf(parseZettelId(baseId), SiblingCandidates(vault, excludeFile))

\* getNextChildId(parentId, excludeFile)
getNextChildId(parentId, vault, excludeFile) ==
  LET baseChildId == IF IsLower(parentId[Len(parentId)])
                     THEN parentId \o <<"1">>
                     ELSE parentId \o <<"a">>
      sibling == getNextSiblingId(baseChildId, vault, excludeFile)
  IN  IF sibling.ok THEN sibling.id ELSE baseChildId

(***************************************************************************)
(* Creating child notes in the earlier view                                *)
(***************************************************************************)
InitOld ==
  /\ files \in {v \in SUBSET GenNames : Cardinality(v) \in 1..MaxInitFiles}
  /\ oldCall = NoCall /\ ops = 0
  /\ zettelCache = <<>> /\ genCall = NoCall
  /\ name = <<>> /\ parseCall = NoCall
  /\ ida = Null /\ idb = Null /\ cmpCall = NoCompare
  /\ letters = <<>> /\ nextCall = NoCall
  /\ NoLinkGraph /\ collapsedIds = {} /\ shown = {}

\* createChildNote(zettel.parsed.id) on a listed note
OldCreateChildNote ==
  \E f \in {g \in files : parseZettelId(g).ok} :
    LET parentId == parseZettelId(f).id
        nextId == getNextChildId(parentId, files, <<>>)
    IN  /\ ops < MaxOps /\ ops' = ops + 1
        /\ oldCall' = [fn |-> "createChildNote", parent |-> parentId, vault |-> files,
                       out |-> nextId]
        /\ files' = files \cup {nextId \o <<"-">>}  \* vault.create throws on a file there is
        /\ UNCHANGED <<name, parseCall, ida, idb, cmpCall, letters, nextCall, zettelCache, genCall, links, keyOrder, settings, tree, collapsedIds, shown, rebuild, refreshVars, recentFiles, moveCall>>

NextOld == OldCreateChildNote

SpecOld == InitOld /\ [][NextOld]_vars

\* the ids of the files of a vault that are children of parentId
ChildIds(vault, parentId) ==
  {id \in {parseZettelId(f).id : f \in {g \in vault : parseZettelId(g).ok}} :
     getParentId(id).ok /\ getParentId(id).id = parentId}

\* C10: for a parent without children in the vault getNextChildId returns the
\* parent's id followed by "1" when it ends in a letter, by "a" when it ends in
\* a digit
C10_FirstChildId ==
  (oldCall.fn = "createChildNote" /\ ChildIds(oldCall.vault, oldCall.parent) = {}) =>
    oldCall.out = oldCall.parent \o
      (IF IsLower(oldCall.parent[Len(oldCall.parent)]) THEN <<"1">> ELSE <<"a">>)

\* the letter children of parentId are used up: a file with the id parentId
\* followed by "z" is in the vault
LettersExhausted(vault, parentId) ==
  \E f \in vault : parseZettelId(f).ok /\ parseZettelId(f).id = parentId \o <<"z">>

\* C11: when the letter children of the parent are used up, createChildNote
\* creates no file and the id it got from getNextChildId is not the id of a
\* file of the vault
C11_ExhaustedLettersFail ==
  (oldCall.fn = "createChildNote" /\ LettersExhausted(oldCall.vault, oldCall.parent)) =>
    /\ files = oldCall.vault
    /\ ~ \E f \in oldCall.vault : parseZettelId(f).ok /\ parseZettelId(f).id = oldCall.out

\* C12: compareZettelIds returns -1, 0 or 1 and no other number
C12_ReturnsMinusOneZeroOne ==
  cmpCall.done => cmpCall.out \in {-1, 0, 1}

\* the first index at which the two part lists differ, digit parts of the same
\* integer value counting as the same; 0 when one list is a prefix of the other
FirstDifference(pa, pb) ==
  LET na == SameNumbers(pa)
      nb == SameNumbers(pb)
      ks == {k \in 1..Len(pa) : k <= Len(pb) /\ na[k] # nb[k]}
  IN  IF ks = {} THEN 0 ELSE CHOOSE k \in ks : \A j \in ks : k <= j

\* the order of two different parts: a dot before a digit or letter part, digit
\* parts by integer value, letter parts alphabetically, digits before letters
PartOrder(x, y) ==
  IF x = <<".">> THEN -1
  ELSE IF y = <<".">> THEN 1
  ELSE IF AllDigits(x) /\ AllDigits(y) THEN Sign(parseInt(x) - parseInt(y))
  ELSE IF AllDigits(x) THEN -1
  ELSE IF AllDigits(y) THEN 1
  ELSE IF charCodeAt(x[1]) < charCodeAt(y[1]) THEN -1 ELSE 1

\* C13: compareZettelIds decides at the first part where the two identifiers
\* differ (digit parts of the same integer value are passed over): a dot sorts
\* first, two digit parts go by integer value, two letters alphabetically, a
\* digit part before a letter; when one list of parts is a proper prefix of
\* the other the shorter identifier sorts first
C13_FirstDifferenceDecides ==
  cmpCall.done =>
    LET k == FirstDifference(ida.parts, idb.parts)
    IN  IF k = 0
        THEN Sign(cmpCall.out) = Sign(Len(ida.parts) - Len(idb.parts))
        ELSE Sign(cmpCall.out) = PartOrder(ida.parts[k], idb.parts[k])

\* a11 against a100: 11 is below 100 as a number and above it as text
C13_Witness ==
  /\ cmpCall.done /\ cmpCall.out < 0
  /\ ida.id = <<"a", "1", "1">> /\ idb.id = <<"a", "1", "0", "0">>

(***************************************************************************)
(* The link graph view: buildZettelkastenTree                              *)
(*                                                                         *)
(* app is [files, links]: the markdown files of the vault by basename and  *)
(* metadataCache.resolvedLinks as pairs <<source, target>>.  A node is     *)
(* [file, id, mutuals, backlinks, outgoings, level, linkType], linkType    *)
(* "none" where the code leaves it undefined.                              *)
(***************************************************************************)
\* String.prototype.toLowerCase on the letters the basenames are written in
toLowerCase(s) ==
  [k \in 1..Len(s) |-> IF s[k] = "A" THEN "a" ELSE s[k]]

RECURSIVE StringLess(_, _)
\* valueA < valueB on strings: by code units, a proper prefix first
StringLess(x, y) ==
  IF y = <<>> THEN FALSE
  ELSE IF x = <<>> THEN TRUE
  ELSE IF charCodeAt(x[1]) # charCodeAt(y[1]) THEN charCodeAt(x[1]) < charCodeAt(y[1])
  ELSE StringLess(Tail(x), Tail(y))

\* the comparator of sortFiles for sortBy 'filename': a sorts before b
SortsBefore(a, b, st) ==
  IF st.sortOrder = "desc"
  THEN StringLess(toLowerCase(b), toLowerCase(a))
  ELSE StringLess(toLowerCase(a), toLowerCase(b))

\* sortFiles(app, files, settings) for sortBy 'filename', on files whose
\* lowercased basenames differ: the order of the array handed in does not show
sortFiles(fs, st) ==
  [k \in 1..Cardinality(fs) |->
     CHOOSE f \in fs : Cardinality({g \in fs : SortsBefore(g, f, st)}) = k - 1]

RECURSIVE LetterSequenceFrom(_, _)
\* the do-while loop of getLetterSequenceFromIndex
LetterSequenceFrom(remaining, result) ==
  LET next == <<fromCharCode(97 + (remaining % 26))>> \o result
  IN  IF (remaining \div 26) - 1 >= 0
      THEN LetterSequenceFrom((remaining \div 26) - 1, next)
      ELSE next

\* getLetterSequenceFromIndex(index)
getLetterSequenceFromIndex(index) ==
  IF index < 0 THEN <<"a">> ELSE LetterSequenceFrom(index, <<>>)

\* /\d$/.test(currentId)
EndsWithDigit(currentId) ==
  currentId # <<>> /\ IsDigit(currentId[Len(currentId)])

\* the filter of the linked files with the test of the current path forgotten
NotAnAncestorForgotten(app, f, newAncestors) ==
  f \in app.files

\* f instanceof TFile && f.extension === 'md' && !newAncestors.has(f)
NotAnAncestor(app, f, newAncestors) ==
  f \in app.files /\ f \notin newAncestors

\* Object.keys(resolvedLinks[file.path] || {})
outgoingPaths(app, file) ==
  {l[2] : l \in {m \in app.links : m[1] = file}}

\* inverseResolvedLinks[file.path] || []
backlinkPaths(app, file) ==
  {l[1] : l \in {m \in app.links : m[2] = file}}

\* every backlink counted as mutual: the outgoingSet.has test forgotten
mutualFilesAllBacklinks(app, file, newAncestors) ==
  {f \in backlinkPaths(app, file) : NotAnAncestor(app, f, newAncestors)}

mutualFiles(app, file, newAncestors) ==
  {f \in backlinkPaths(app, file) :
     NotAnAncestor(app, f, newAncestors) /\ f \in outgoingPaths(app, file)}

backlinkOnlyFiles(app, file, newAncestors) ==
  {f \in backlinkPaths(app, file) :
     NotAnAncestor(app, f, newAncestors) /\ f \notin outgoingPaths(app, file)}

outgoingOnlyFiles(app, file, newAncestors) ==
  {f \in outgoingPaths(app, file) :
     f \notin backlinkPaths(app, file) /\ NotAnAncestor(app, f, newAncestors)}

\* the suffix of a mutual or outgoing child at index (from 0)
SameKindSuffix(parentEndsWithDigit, index) ==
  IF parentEndsWithDigit THEN toString(index + 1) ELSE getLetterSequenceFromIndex(index)

\* the suffix of a backlink child with the number always taken
BacklinkSuffixAlwaysNumber(parentEndsWithDigit, index) ==
  toString(index + 1)

\* the suffix of a backlink child with the index forgotten
BacklinkSuffixOfTheFirst(parentEndsWithDigit, index) ==
  IF parentEndsWithDigit THEN <<"a">> ELSE <<"1">>

\* the suffix of a backlink child at index (from 0)
BacklinkSuffix(parentEndsWithDigit, index) ==
  IF parentEndsWithDigit THEN getLetterSequenceFromIndex(index) ELSE toString(index + 1)

\* the node returned for a file met again on the current path
RepeatNode(file, level, currentId) ==
  [file |-> file,
   id |-> currentId \o (IF EndsWithDigit(currentId) THEN <<"a">> ELSE <<"1">>),
   mutuals |-> <<>>, backlinks |-> <<>>, outgoings |-> <<>>,
   level |-> level, linkType |-> "none"]

RECURSIVE buildTree(_, _, _, _, _, _)

\* an outgoing child built like a backlink child, by recursion
OutgoingNodeExpanded(app, st, childFile, childId, level, newAncestors) ==
  [buildTree(app, st, childFile, level + 1, childId, newAncestors)
     EXCEPT !.linkType = "outgoing"]

\* the node of an outgoing child: built by hand, without recursion
OutgoingNode(app, st, childFile, childId, level, newAncestors) ==
  [file |-> childFile, id |-> childId,
   mutuals |-> <<>>, backlinks |-> <<>>, outgoings |-> <<>>,
   level |-> level + 1, linkType |-> "outgoing"]

\* the three forEach loops of buildTree over the sorted children
ExpandedNode(app, st, file, level, currentId, newAncestors, sortedMutualFiles, sortedBacklinkFiles, sortedOutgoingFiles) ==
  [file |-> file, id |-> currentId,
   mutuals |->
     [i \in 1..Len(sortedMutualFiles) |->
        [buildTree(app, st, sortedMutualFiles[i], level + 1,
                   currentId \o <<".">> \o SameKindSuffix(EndsWithDigit(currentId), i - 1),
                   newAncestors)
           EXCEPT !.linkType = "mutual"]],
   backlinks |->
     [i \in 1..Len(sortedBacklinkFiles) |->
        [buildTree(app, st, sortedBacklinkFiles[i], level + 1,
                   currentId \o BacklinkSuffix(EndsWithDigit(currentId), i - 1),
                   newAncestors)
           EXCEPT !.linkType = "backlink"]],
   outgoings |->
     [i \in 1..Len(sortedOutgoingFiles) |->
        OutgoingNode(app, st, sortedOutgoingFiles[i],
                     currentId \o <<">">> \o SameKindSuffix(EndsWithDigit(currentId), i - 1),
                     level, newAncestors)],
   level |-> level, linkType |-> "none"]

\* buildTree(file, level, currentId, ancestors)
buildTree(app, st, file, level, currentId, ancestors) ==
  IF file \in ancestors THEN RepeatNode(file, level, currentId)
  ELSE ExpandedNode(app, st, file, level, currentId, ancestors \cup {file},
                    sortFiles(mutualFiles(app, file, ancestors \cup {file}), st),
                    sortFiles(backlinkOnlyFiles(app, file, ancestors \cup {file}), st),
                    sortFiles(outgoingOnlyFiles(app, file, ancestors \cup {file}), st))

\* the root file: the file named by settings.rootFile, else the first file
\* of the sorted vault
RootFile(app, st) ==
  IF st.rootFile # <<>> /\ st.rootFile \in app.files THEN st.rootFile
  ELSE sortFiles(app.files, st)[1]

\* buildZettelkastenTree(app, settings)
buildZettelkastenTree(app, st) ==
  IF app.files = {} THEN Null
  ELSE [ok |-> TRUE, node |-> buildTree(app, st, RootFile(app, st), 0, <<>>, {})]

(***************************************************************************)
(* The link graph view of view.ts: getAllZettels                           *)
(*                                                                         *)
(* app.order lists the files in the order of the keys of resolvedLinks,    *)
(* which is the order `for (const path in backlinks)` visits them in.  A   *)
(* node is [file, id, children, level].                                    *)
(***************************************************************************)
\* the files of fs in the order of the keys of resolvedLinks
InKeyOrder(fs, order) ==
  SelectSeq(order, LAMBDA f : f \in fs)

\* the keys of getBacklinks(file): the sources that link to file
getBacklinks(app, file) ==
  {l[1] : l \in {m \in app.links : m[2] = file}}

\* mutualChildren: the backlinks off the current path that file links back to
mutualChildren(app, file, newAncestors) ==
  InKeyOrder({f \in getBacklinks(app, file) :
                /\ f \in app.files /\ f \notin newAncestors
                /\ file \in getBacklinks(app, f)}, app.order)

\* singleChildren: the other backlinks off the current path
singleChildren(app, file, newAncestors) ==
  InKeyOrder({f \in getBacklinks(app, file) :
                /\ f \in app.files /\ f \notin newAncestors
                /\ file \notin getBacklinks(app, f)}, app.order)

RECURSIVE viewBuildTree(_, _, _, _, _, _)

\* the two forEach loops of buildTree; mutual children come first
ViewExpandedNode(app, file, level, currentId, useLetters, newAncestors, mutual, single) ==
  [file |-> file, id |-> currentId,
   children |->
     [i \in 1..Len(mutual) |->
        viewBuildTree(app, mutual[i], level + 1,
                      currentId \o <<".">> \o SameKindSuffix(useLetters, i - 1),
                      EndsWithDigit(currentId \o <<".">> \o SameKindSuffix(useLetters, i - 1)),
                      newAncestors)]
     \o
     [i \in 1..Len(single) |->
        viewBuildTree(app, single[i], level + 1,
                      currentId \o BacklinkSuffix(useLetters, i - 1),
                      EndsWithDigit(currentId \o BacklinkSuffix(useLetters, i - 1)),
                      newAncestors)],
   level |-> level]

\* buildTree(file, level, currentId, useLetters, ancestors) of getAllZettels
viewBuildTree(app, file, level, currentId, useLetters, ancestors) ==
  IF file \in ancestors
  THEN [file |-> file,
        id |-> currentId \o (IF useLetters THEN <<"a">> ELSE <<"1">>),
        children |-> <<>>, level |-> level]
  ELSE ViewExpandedNode(app, file, level, currentId, useLetters, ancestors \cup {file},
                        mutualChildren(app, file, ancestors \cup {file}),
                        singleChildren(app, file, ancestors \cup {file}))

RECURSIVE flattenTree(_)
RECURSIVE FlattenAll(_, _)
\* the loop of flattenTree over the children from index i
FlattenAll(children, i) ==
  IF i > Len(children) THEN <<>>
  ELSE flattenTree(children[i]) \o FlattenAll(children, i + 1)

\* flattenTree(node): the node, then its children flattened, in order
flattenTree(node) ==
  <<node>> \o FlattenAll(node.children, 1)

RECURSIVE Decremented(_)
\* a node after node.level -= 1 ran on it and on the nodes below it: the
\* entries of the flattened list are the objects the children arrays hold
Decremented(node) ==
  [node EXCEPT !.level = @ - 1,
               !.children = [i \in 1..Len(node.children) |-> Decremented(node.children[i])]]

\* a flattened list whose levels are left as built
LevelsKept(flattened) == flattened

\* node.level -= 1 on every entry of a flattened list
LevelsAdjusted(flattened) ==
  [k \in 1..Len(flattened) |-> Decremented(flattened[k])]

\* getAllZettels(): the children of the root flattened, the root left out
viewGetAllZettels(app, st) ==
  IF app.files = {} THEN <<>>
  ELSE LevelsAdjusted(
         FlattenAll(viewBuildTree(app, RootFile(app, st), 0, <<>>, TRUE, {}).children, 1))

(***************************************************************************)
(* Building the tree of a vault                                            *)
(***************************************************************************)
\* the basenames of the files of a vault; lowercased they sort a, Ab, b
TreeNames == {<<"a">>, <<"A", "b">>, <<"b">>}

\* the orders the keys of resolvedLinks can be in
KeyOrders(fs) ==
  {order \in [1..Cardinality(fs) -> fs] : \A i, j \in 1..Cardinality(fs) :
                                             order[i] = order[j] => i = j}

InitTree ==
  /\ files \in SUBSET TreeNames
  /\ links \in SUBSET (files \X files)
  /\ keyOrder \in KeyOrders(files)
  /\ settings \in [rootFile : {<<>>} \cup TreeNames, sortOrder : {"asc", "desc"}]
  /\ tree = Null /\ rebuild = [done |-> FALSE] /\ NoRefresh
  /\ zettelCache = <<>> /\ collapsedIds = {} /\ shown = {}
  /\ genCall = NoCall /\ ops = 0 /\ oldCall = NoCall
  /\ name = <<>> /\ parseCall = NoCall
  /\ ida = Null /\ idb = Null /\ cmpCall = NoCompare
  /\ letters = <<>> /\ nextCall = NoCall

\* buildZettelkastenTree(app, settings) on the vault as it is
BuildTree ==
  /\ tree' = buildZettelkastenTree([files |-> files, links |-> links], settings)
  /\ UNCHANGED <<name, parseCall, ida, idb, cmpCall, letters, nextCall, files, zettelCache,
                 genCall, ops, oldCall, links, keyOrder, settings, collapsedIds, shown, rebuild, refreshVars, recentFiles, moveCall>>

\* performRefresh of the view: the cache is emptied, getAllZettels builds the
\* list again and renderZettelList lists it
ViewRefresh ==
  /\ zettelCache' = viewGetAllZettels([files |-> files, links |-> links, order |-> keyOrder],
                                      settings)
  /\ shown' = renderZettelList(zettelCache', collapsedIds)
  /\ UNCHANGED <<name, parseCall, ida, idb, cmpCall, letters, nextCall, files, genCall, ops,
                 oldCall, links, keyOrder, settings, tree, collapsedIds, rebuild, refreshVars, recentFiles, moveCall>>

NextTree == BuildTree \/ ViewRefresh

SpecTree == InitTree /\ [][NextTree]_vars

(***************************************************************************)
(* Claims about the tree builder                                           *)
(***************************************************************************)
\* the elements of a sequence
Range(xs) == {xs[k] : k \in 1..Len(xs)}

\* the children of a node of buildZettelkastenTree
Children(node) ==
  Range(node.mutuals) \cup Range(node.backlinks) \cup Range(node.outgoings)

RECURSIVE Depth(_)
\* the number of nodes on the longest path from a node down
Depth(node) == 1 + Max({0} \cup {Depth(c) : c \in Children(node)})

RECURSIVE ViewDepth(_)
ViewDepth(node) == 1 + Max({0} \cup {ViewDepth(c) : c \in Range(node.children)})

RECURSIVE NodesBelow(_, _)
\* the nodes of a tree, each with the files on the path from the root to it
NodesBelow(node, ancestors) ==
  {[node |-> node, ancestors |-> ancestors]}
    \cup UNION {NodesBelow(c, ancestors \cup {node.file}) : c \in Children(node)}

RECURSIVE ViewNodesBelow(_, _)
ViewNodesBelow(node, ancestors) ==
  {[node |-> node, ancestors |-> ancestors]}
    \cup UNION {ViewNodesBelow(c, ancestors \cup {node.file}) : c \in Range(node.children)}

\* the nodes of the tree built last
TreeNodes == IF tree.ok THEN NodesBelow(tree.node, {}) ELSE {}

\* the nodes of the list of the view: the entries of the first level are the
\* children of the root file
ViewNodes ==
  UNION {ViewNodesBelow(zettelCache[k], {RootFile([files |-> files], settings)}) :
           k \in {m \in 1..Len(zettelCache) : zettelCache[m].level = 0}}

\* C14: the tree builders return, and no path of the tree they return holds
\* more nodes than the vault has files
C14_DepthWithinFiles ==
  /\ tree.ok => Depth(tree.node) <= Cardinality(files)
  /\ \A k \in 1..Len(zettelCache) :
       /\ zettelCache[k].level + 2 <= Cardinality(files)
       /\ zettelCache[k].level + ViewDepth(zettelCache[k]) + 1 <= Cardinality(files)

\* every file links to every file, itself too, and the tree is three deep
C14_Witness ==
  /\ files = TreeNames /\ links = files \X files
  /\ tree.ok /\ Depth(tree.node) = 3
  /\ Len(zettelCache) > 0

\* the files that N links to or that link to N
Linked(file) ==
  {f \in files : <<f, file>> \in links \/ <<file, f>> \in links}

\* C15 as stated: an expanded node with a linked file among its ancestors has,
\* among its children, a leaf for that file whose id is the node's id and the
\* first token of a child
C15_PlaceholderForAncestor ==
  \A n \in TreeNodes :
    n.node.linkType # "outgoing" =>
      \A f \in Linked(n.node.file) \cap n.ancestors :
        \E c \in Children(n.node) :
          /\ c.file = f /\ Children(c) = {}
          /\ c.id = n.node.id \o (IF EndsWithDigit(n.node.id) THEN <<"a">> ELSE <<"1">>)

\* C15: a linked file that is an ancestor of a node on the current path, or
\* the node's own file, gets no node among the children of the node: neither
\* builder returns a tree with a placeholder in it
C15_AncestorsLeftOut ==
  /\ \A n \in TreeNodes : n.node.file \notin n.ancestors
  /\ \A n \in ViewNodes : n.node.file \notin n.ancestors

\* a and Ab link to each other: Ab is expanded below a and gets no child
C15_Witness ==
  /\ files = {<<"a">>, <<"A", "b">>}
  /\ links = {<< <<"a">>, <<"A", "b">> >>, << <<"A", "b">>, <<"a">> >>}
  /\ tree.ok /\ tree.node.file = <<"a">>
  /\ Len(tree.node.mutuals) = 1 /\ Children(tree.node.mutuals[1]) = {}

\* the files of the nodes of a list of children
FilesOf(nodes) == {nodes[k].file : k \in 1..Len(nodes)}

\* no file stands twice in a list of children
NoFileTwice(nodes) ==
  \A i, j \in 1..Len(nodes) : nodes[i].file = nodes[j].file => i = j

\* C16: below an expanded node N a file F that is neither N nor an ancestor of
\* N is a mutual child exactly when F and N link to each other, a backlink
\* child exactly when only F links to N, an outgoing child exactly when only N
\* links to F; it is in one list at most, once, under the list's linkType
C16_ClassifiedByLinks ==
  \A n \in TreeNodes :
    n.node.linkType # "outgoing" =>
      /\ \A f \in files \ (n.ancestors \cup {n.node.file}) :
           /\ f \in FilesOf(n.node.mutuals)
                <=> (<<f, n.node.file>> \in links /\ <<n.node.file, f>> \in links)
           /\ f \in FilesOf(n.node.backlinks)
                <=> (<<f, n.node.file>> \in links /\ <<n.node.file, f>> \notin links)
           /\ f \in FilesOf(n.node.outgoings)
                <=> (<<n.node.file, f>> \in links /\ <<f, n.node.file>> \notin links)
      /\ NoFileTwice(n.node.mutuals \o n.node.backlinks \o n.node.outgoings)
      /\ \A c \in Range(n.node.mutuals) : c.linkType = "mutual"
      /\ \A c \in Range(n.node.backlinks) : c.linkType = "backlink"
      /\ \A c \in Range(n.node.outgoings) : c.linkType = "outgoing"

\* the root has a mutual and a backlink child, and a node below it an
\* outgoing child
C16_Witness ==
  /\ tree.ok
  /\ Len(tree.node.mutuals) = 1 /\ Len(tree.node.backlinks) = 1
  /\ \E n \in TreeNodes : n.ancestors # {} /\ Len(n.node.outgoings) = 1

\* the chain a -> Ab -> b
Chain ==
  {<< <<"a">>, <<"A", "b">> >>, << <<"A", "b">>, <<"b">> >>}

\* C17: a node of linkType outgoing has no children, whatever its file links
\* to; of the chain a -> Ab -> b built from a the tree is a with the outgoing
\* leaf Ab, and b is nowhere in it
C17_OutgoingIsLeaf ==
  /\ \A n \in TreeNodes : n.node.linkType = "outgoing" => Children(n.node) = {}
  /\ (tree.ok /\ files = TreeNames /\ links = Chain /\ tree.node.file = <<"a">>) =>
       /\ tree.node.mutuals = <<>> /\ tree.node.backlinks = <<>>
       /\ FilesOf(tree.node.outgoings) = {<<"A", "b">>}
       /\ \A n \in TreeNodes : n.node.file # <<"b">>

C17_Witness ==
  /\ tree.ok /\ files = TreeNames /\ links = Chain /\ tree.node.file = <<"a">>
  /\ Len(tree.node.outgoings) = 1

\* the root file of the view and the entries of the first level of its list
ViewRoot == RootFile([files |-> files], settings)

ViewTop == SelectSeq(zettelCache, LAMBDA z : z.level = 0)

\* the index of the entry k of the first level among the entries of its class
ViewTopIndex(k) ==
  Cardinality({j \in 1..(k - 1) :
                 (<<ViewRoot, ViewTop[j].file>> \in links)
                   = (<<ViewRoot, ViewTop[k].file>> \in links)})

\* the letter sequence of i when P ends in a digit, the number i + 1 otherwise
OppositeKindSuffix(P, i) ==
  IF EndsWithDigit(P) THEN getLetterSequenceFromIndex(i) ELSE toString(i + 1)

\* the number i + 1 when P ends in a digit, the letter sequence of i otherwise
KeptKindSuffix(P, i) ==
  IF EndsWithDigit(P) THEN toString(i + 1) ELSE getLetterSequenceFromIndex(i)

ViewIndex(node, k) ==
  Cardinality({j \in 1..(k - 1) :
                 (<<node.file, node.children[j].file>> \in links)
                   = (<<node.file, node.children[k].file>> \in links)})

RenderNames ==
  { <<"a">>, <<"a", "1">>, <<"a", "1", "0">>, <<"a", "1", "a">>, <<"b">>, <<"b", "1">> }

\* hasChildren of renderZettelList: some entry's id starts with zettelId and
\* is not zettelId
hasChildren(zettels, zettelId) ==
  \E k \in 1..Len(zettels) : StartsWith(zettels[k].id, zettelId) /\ zettels[k].id # zettelId

InitRender ==
  /\ files \in SUBSET RenderNames
  /\ zettelCache \in getAllZettels(files)
  /\ collapsedIds = {}
  /\ shown = renderZettelList(zettelCache, collapsedIds)
  /\ NoLinkGraph
  /\ genCall = NoCall /\ ops = 0 /\ oldCall = NoCall
  /\ name = <<>> /\ parseCall = NoCall
  /\ ida = Null /\ idb = Null /\ cmpCall = NoCompare
  /\ letters = <<>> /\ nextCall = NoCall

\* refresh() with the collapse set just saved
RefreshedWith(collapsed) ==
  /\ collapsedIds' = collapsed
  /\ zettelCache' \in getAllZettels(files)
  /\ shown' = renderZettelList(zettelCache', collapsed)
  /\ UNCHANGED <<name, parseCall, ida, idb, cmpCall, letters, nextCall, files, genCall, ops,
                 oldCall, links, keyOrder, settings, tree, rebuild, refreshVars, recentFiles, moveCall>>

\* toggleBtn.onclick on a listed entry that has the collapse button
ToggleCollapse ==
  \E k \in 1..Len(zettelCache) :
    /\ zettelCache[k].file \in shown
    /\ hasChildren(zettelCache, zettelCache[k].id)
    /\ RefreshedWith(IF zettelCache[k].id \in collapsedIds
                     THEN collapsedIds \ {zettelCache[k].id}
                     ELSE collapsedIds \cup {zettelCache[k].id})

\* itemContent.onclick on a listed entry that is collapsed: it is expanded
ExpandOnClick ==
  \E k \in 1..Len(zettelCache) :
    /\ zettelCache[k].file \in shown
    /\ zettelCache[k].id \in collapsedIds
    /\ RefreshedWith(collapsedIds \ {zettelCache[k].id})

NextRender == ToggleCollapse \/ ExpandOnClick

SpecRender == InitRender /\ [][NextRender]_vars

\* the id names a proper ancestor of the entry: its parts are the first parts
\* of the entry's, and fewer
IsProperAncestorId(id, zettel) ==
  /\ parseZettelId2(id).ok
  /\ Len(parseZettelId2(id).parts) < Len(zettel.parts)
  /\ SubSeq(zettel.parts, 1, Len(parseZettelId2(id).parts)) = parseZettelId2(id).parts

\* C19: an entry of the list is hidden exactly when the id of one of its
\* proper ancestors is collapsed; a collapsed entry itself and the entries that
\* are not below it, its siblings among them, are listed
C19_HiddenBelowCollapsed ==
  \A k \in 1..Len(zettelCache) :
    (zettelCache[k].file \notin shown)
      <=> \E c \in collapsedIds : IsProperAncestorId(c, zettelCache[k])

(***************************************************************************)
(* The link graph view at work: collapsing entries, creating and deleting  *)
(* notes (view.ts, first revision)                                         *)
(***************************************************************************)
MaxViewOps == 2

\* the names the user gives to new notes
NewNames == {<<"c">>}

\* the notes of a list that have entries below them
Parents(zettels) ==
  {zettels[k].file : k \in {m \in 1..Len(zettels) : Len(zettels[m].children) > 0}}

\* the notes whose entries below are hidden: their id is collapsed
Denoted(zettels, collapsed) ==
  {zettels[k].file : k \in {m \in 1..Len(zettels) :
                               /\ zettels[m].id \in collapsed
                               /\ Len(zettels[m].children) > 0}}

InitLinkView ==
  /\ files \in SUBSET TreeNames
  /\ links \in SUBSET {l \in files \X files : l[1] # l[2]}
  /\ keyOrder \in KeyOrders(files)
  /\ settings = DEFAULT_SETTINGS
  /\ collapsedIds = {}
  /\ zettelCache = viewGetAllZettels([files |-> files, links |-> links, order |-> keyOrder],
                                     settings)
  /\ shown = renderZettelList(zettelCache, collapsedIds)
  /\ tree = Null /\ rebuild = [done |-> FALSE] /\ NoRefresh
  /\ genCall = NoCall /\ ops = 0 /\ oldCall = NoCall
  /\ name = <<>> /\ parseCall = NoCall
  /\ ida = Null /\ idb = Null /\ cmpCall = NoCompare
  /\ letters = <<>> /\ nextCall = NoCall

\* performRefresh after the vault or the collapse set changed: the cache is
\* emptied, the list is built from the vault as it is now and rendered
LinkRefreshed(vault, resolved, order, collapsed) ==
  /\ files' = vault /\ links' = resolved /\ keyOrder' = order
  /\ collapsedIds' = collapsed
  /\ zettelCache' = viewGetAllZettels([files |-> vault, links |-> resolved, order |-> order],
                                      settings)
  /\ shown' = renderZettelList(zettelCache', collapsed)
  /\ UNCHANGED <<name, parseCall, ida, idb, cmpCall, letters, nextCall, genCall, oldCall,
                 settings, tree, refreshVars, recentFiles, moveCall>>

\* what a refresh after a change of the vault did to the notes the collapsed
\* ids stand for
Rebuilt ==
  rebuild' = [done |-> TRUE,
              before |-> Denoted(zettelCache, collapsedIds),
              after |-> Denoted(zettelCache', collapsedIds'),
              listedBefore |-> zettelCache,
              listed |-> zettelCache']

\* toggleBtn.onclick on a listed entry that has children
LinkToggleCollapse ==
  \E k \in 1..Len(zettelCache) :
    /\ zettelCache[k].file \in shown
    /\ Len(zettelCache[k].children) > 0
    /\ LinkRefreshed(files, links, keyOrder,
                     IF zettelCache[k].id \in collapsedIds
                     THEN collapsedIds \ {zettelCache[k].id}
                     ELSE collapsedIds \cup {zettelCache[k].id})
    /\ UNCHANGED <<ops, rebuild>>

\* the menu entry that deletes the file of a listed entry: its links leave
\* resolvedLinks with it, and the 'delete' event refreshes the view
DeleteNote ==
  \E k \in 1..Len(zettelCache) :
    LET file == zettelCache[k].file
    IN  /\ file \in shown
        /\ ops < MaxViewOps /\ ops' = ops + 1
        /\ LinkRefreshed(files \ {file},
                         {l \in links : l[1] # file /\ l[2] # file},
                         SelectSeq(keyOrder, LAMBDA f : f # file),
                         collapsedIds)
        /\ Rebuilt

\* createChildNote(parent) on a listed entry: the new file links to the
\* parent, the parent gets a link to the new file, the view is refreshed
LinkCreateChildNote ==
  \E k \in 1..Len(zettelCache), newName \in NewNames :
    LET parent == zettelCache[k].file
    IN  /\ parent \in shown
        /\ newName \notin files
        /\ ops < MaxViewOps /\ ops' = ops + 1
        /\ LinkRefreshed(files \cup {newName},
                         links \cup {<<newName, parent>>, <<parent, newName>>},
                         Append(keyOrder, newName),
                         collapsedIds)
        /\ Rebuilt

NextLinkView == LinkToggleCollapse \/ DeleteNote \/ LinkCreateChildNote

SpecLinkView == InitLinkView /\ [][NextLinkView]_vars

\* no note stands twice in a list
ListedOnce(zettels) ==
  \A i, j \in 1..Len(zettels) : zettels[i].file = zettels[j].file => i = j

\* C20: after a note was created or deleted and the list was built again with
\* the collapse set as it was, the notes whose entries below are hidden are
\* the notes whose entries below were hidden before, as far as these still
\* have entries below them (lists in which every note stands once)
C20_CollapsedIdsKeepTheirNotes ==
  (rebuild.done /\ ListedOnce(rebuild.listedBefore) /\ ListedOnce(rebuild.listed)) =>
    rebuild.after = rebuild.before \cap Parents(rebuild.listed)

(***************************************************************************)
(* The debounced refresh of the link graph view (view.ts, first revision). *)
(* The handlers and the timer callbacks are tasks of one event loop: a     *)
(* task runs when no other runs.  performRefresh has no await, it runs     *)
(* from its first line to its finally block within one task; while it runs *)
(* time passes and change notifications wait in the loop.                  *)
(***************************************************************************)
MaxTime == 7
MaxNotifications == 4

\* setTimeout(..., 100): the 100 ms in ticks of 50 ms
Debounce == 2

NoLog ==
  [calls |-> 0, lastCall |-> 0, bursts |-> 0, runs |-> 0, lastRunDelay |-> 0,
   notified |-> 0, inFlight |-> FALSE, owed |-> FALSE, later |-> FALSE,
   followUps |-> 0, exit |-> "none"]

\* refresh() without its clearTimeout
refreshWithoutClear(handle, refreshing, pendingTimers, time) ==
  IF refreshing
  THEN [timers |-> pendingTimers, refreshTimeout |-> handle]
  ELSE [timers |-> pendingTimers \cup {[id |-> handle + 1, due |-> time + Debounce]},
        refreshTimeout |-> handle + 1]

\* refresh(): the timer of the handle is cleared; unless a refresh is running
\* a new timer is set and its handle kept
refresh(handle, refreshing, pendingTimers, time) ==
  LET cleared == IF handle # 0
                 THEN {t \in pendingTimers : t.id # handle}
                 ELSE pendingTimers
  IN  IF refreshing
      THEN [timers |-> cleared, refreshTimeout |-> handle]
      ELSE [timers |-> cleared \cup {[id |-> handle + 1, due |-> time + Debounce]},
            refreshTimeout |-> handle + 1]

\* the ways performRefresh ends: the list was rendered, the list container
\* was missing, building or rendering threw
Outcomes == {"rendered", "noContainer", "threw"}

\* a performRefresh whose catch leaves the flag set
FlagKeptOnThrow(outcome) == outcome = "threw"

\* a performRefresh whose early return skips the reset
FlagKeptOnEarlyReturn(outcome) == outcome = "noContainer"

\* isRefreshing after performRefresh ended: the finally block resets it
FlagAfterPerformRefresh(outcome) == FALSE

InitRefresh ==
  /\ now = 0 /\ timers = {} /\ refreshTimeout = 0 /\ isRefreshing = FALSE
  /\ running = 0 /\ pending = 0 /\ log = NoLog
  /\ recentFiles = <<>> /\ moveCall = NoMove
  /\ files = {} /\ zettelCache = <<>> /\ links = {} /\ keyOrder = <<>>
  /\ settings = DEFAULT_SETTINGS /\ tree = Null /\ rebuild = [done |-> FALSE]
  /\ collapsedIds = {} /\ shown = {}
  /\ genCall = NoCall /\ ops = 0 /\ oldCall = NoCall
  /\ name = <<>> /\ parseCall = NoCall
  /\ ida = Null /\ idb = Null /\ cmpCall = NoCompare
  /\ letters = <<>> /\ nextCall = NoCall

RefreshFrame ==
  UNCHANGED <<name, parseCall, ida, idb, cmpCall, letters, nextCall, files, zettelCache,
              genCall, ops, oldCall, links, keyOrder, settings, tree, collapsedIds, shown,
              rebuild, recentFiles, moveCall>>

\* a vault event or a click enters the event loop
Notify ==
  /\ log.notified < MaxNotifications
  /\ pending' = pending + 1
  /\ log' = [log EXCEPT !.notified = @ + 1,
                        !.inFlight = @ \/ running > 0,
                        !.later = @ \/ log.owed]
  /\ UNCHANGED <<now, timers, refreshTimeout, isRefreshing, running>>
  /\ RefreshFrame

\* the event loop runs the handler of a notification: it calls refresh(); a
\* timer that is due runs before the handlers of the same instant
Deliver ==
  /\ running = 0 /\ pending > 0
  /\ \A t \in timers : t.due > now
  /\ pending' = pending - 1
  /\ LET r == refresh(refreshTimeout, isRefreshing, timers, now)
     IN  /\ timers' = r.timers
         /\ refreshTimeout' = r.refreshTimeout
  /\ log' = [log EXCEPT !.calls = @ + 1,
                        !.lastCall = now,
                        !.bursts = IF log.calls = 0 \/ now - log.lastCall >= Debounce
                                   THEN @ + 1 ELSE @]
  /\ UNCHANGED <<now, isRefreshing, running>>
  /\ RefreshFrame

\* a timer is due: its callback calls performRefresh, which returns at once
\* when the flag is set and else sets it and starts
Fire ==
  \E t \in timers :
    /\ running = 0 /\ t.due <= now
    /\ timers' = timers \ {t}
    /\ IF isRefreshing
       THEN UNCHANGED <<isRefreshing, running, log>>
       ELSE /\ isRefreshing' = TRUE
            /\ running' = running + 1
            /\ log' = [log EXCEPT !.runs = @ + 1,
                                  !.lastRunDelay = now - log.lastCall,
                                  !.followUps = @ + 1]
    /\ UNCHANGED <<now, refreshTimeout, pending>>
    /\ RefreshFrame

\* performRefresh ends in one of its three ways, through its finally block
Finish ==
  \E outcome \in Outcomes :
    /\ running > 0
    /\ running' = running - 1
    /\ isRefreshing' = FlagAfterPerformRefresh(outcome)
    /\ log' = IF log.inFlight
              THEN [log EXCEPT !.exit = outcome, !.inFlight = FALSE, !.owed = TRUE,
                               !.later = FALSE, !.followUps = 0]
              ELSE [log EXCEPT !.exit = outcome]
    /\ UNCHANGED <<now, timers, refreshTimeout, pending>>
    /\ RefreshFrame

\* 50 ms pass: a task that is ready runs before, a running refresh holds the
\* loop meanwhile
Tick ==
  /\ now < MaxTime
  /\ running > 0 \/ (pending = 0 /\ \A t \in timers : t.due > now)
  /\ now' = now + 1
  /\ UNCHANGED <<timers, refreshTimeout, isRefreshing, running, pending, log>>
  /\ RefreshFrame

NextRefresh == Notify \/ Deliver \/ Fire \/ Finish \/ Tick

SpecRefresh == InitRefresh /\ [][NextRefresh]_vars

\* nothing runs, nothing waits
Quiescent == running = 0 /\ pending = 0 /\ timers = {}

\* C21: refresh() calls less than 100 ms apart make one burst; every burst
\* leads to one performRefresh, which starts no sooner than 100 ms after the
\* last call of the burst, and there is never more than one timer pending
C21_OneRunPerBurst ==
  /\ Cardinality(timers) <= 1
  /\ log.runs <= log.bursts
  /\ log.runs > 0 => log.lastRunDelay >= Debounce
  /\ Quiescent => log.runs = log.bursts

\* three calls made one burst and its one refresh is over
C21_Witness ==
  /\ Quiescent /\ log.calls = 3 /\ log.bursts = 1 /\ log.runs = 1

\* C22: when notifications arrived while performRefresh ran and none arrived
\* after it ended, then once nothing runs or waits any more exactly one
\* further performRefresh has run
C22_InFlightRequestRunsOnce ==
  (Quiescent /\ log.owed /\ ~log.later) => log.followUps = 1

\* a notification arrived during a refresh and the one refresh after it is over
C22_Witness ==
  /\ Quiescent /\ log.owed /\ ~log.later /\ log.followUps = 1 /\ log.runs = 2

\* C28: no two performRefresh run at a time, and the flag is set exactly
\* while one runs, however the last one ended
C28_FlagSetOnlyWhileRunning ==
  /\ running <= 1
  /\ isRefreshing <=> running = 1

\* a refresh ended by the early return or by an exception, and the next one
\* is running
C28_Witness ==
  /\ log.exit \in {"noContainer", "threw"} /\ running = 1 /\ isRefreshing

(***************************************************************************)
(* Claims about indenting and outdenting                                   *)
(***************************************************************************)
\* where the note of a call stands in the list the call read
IndexOf(all, zettel) == CHOOSE k \in 1..Len(all) : all[k].file = zettel.file

\* the earlier notes of the list with the level and the parent parts of all[k]
EarlierSiblings(all, k) ==
  {m \in 1..(k - 1) : /\ all[m].level = all[k].level
                      /\ DropLast(all[m].parts, 1) = DropLast(all[k].parts, 1)}

\* the renamed file is a note one token below the parts given, at the level given
RenamedBelow(call, parts, level) ==
  /\ call.renamed.ok
  /\ LET new == ZettelNode(call.renamed.file)
     IN  /\ Len(new.parts) = Len(parts) + 1
         /\ DropLast(new.parts, 1) = parts
         /\ new.level = level

\* C23: indentNote renames the note to a direct child of its previous sibling,
\* one level deeper, and renames nothing when it has no previous sibling
C23_IndentBelowPreviousSibling ==
  moveCall.fn = "indentNote" =>
    LET k == IndexOf(moveCall.all, moveCall.zettel)
        sibs == EarlierSiblings(moveCall.all, k)
    IN  IF sibs = {} THEN ~moveCall.renamed.ok
        ELSE RenamedBelow(moveCall,
                          moveCall.all[CHOOSE m \in sibs : \A n \in sibs : n <= m].parts,
                          moveCall.zettel.level + 1)

\* a note of the list has the parts given
InCorpus(all, parts) == \E m \in 1..Len(all) : all[m].parts = parts

\* C24: outdentNote renames no note of level 0 and no note whose grandparent
\* is missing; any other note it renames to a sibling of its former parent,
\* the parent's parts with another last token (another than the parent's when
\* the parent is a note of the corpus), one level higher
C24_OutdentBesideParent ==
  moveCall.fn = "outdentNote" =>
    LET zettel == moveCall.zettel
        parent == DropLast(zettel.parts, 1)
        grandparent == DropLast(zettel.parts, 2)
    IN  IF zettel.level = 0 THEN ~moveCall.renamed.ok
        ELSE IF Len(grandparent) > 0 /\ ~InCorpus(moveCall.all, grandparent)
        THEN ~moveCall.renamed.ok
        ELSE /\ RenamedBelow(moveCall, grandparent, zettel.level - 1)
             /\ InCorpus(moveCall.all, parent) =>
                  ZettelNode(moveCall.renamed.file).parts # parent

(***************************************************************************)
(* The names renameId and handleFileDrop build                             *)
(***************************************************************************)
MaxBaseLen == 4

\* the characters of the basenames
BaseChars == {"a", "1", "-", " "}

\* the ids generateChildId hands over
NewIds == {<<"b">>, <<"a", "1", "a">>}

InitRename ==
  /\ name \in StringsOver(BaseChars, 1, MaxBaseLen)
  /\ moveCall = NoMove
  /\ parseCall = NoCall
  /\ ida = Null /\ idb = Null /\ cmpCall = NoCompare
  /\ letters = <<>> /\ nextCall = NoCall
  /\ files = {} /\ zettelCache = <<>> /\ genCall = NoCall /\ ops = 0 /\ oldCall = NoCall
  /\ links = {} /\ keyOrder = <<>> /\ settings = DEFAULT_SETTINGS
  /\ tree = Null /\ rebuild = [done |-> FALSE]
  /\ collapsedIds = {} /\ shown = {}
  /\ now = 0 /\ timers = {} /\ refreshTimeout = 0 /\ isRefreshing = FALSE
  /\ running = 0 /\ pending = 0 /\ log = [runs |-> 0]
  /\ recentFiles = <<>>

RenameFrame ==
  UNCHANGED <<name, parseCall, ida, idb, cmpCall, letters, nextCall, files, zettelCache,
              genCall, ops, oldCall, links, keyOrder, settings, tree, collapsedIds, shown,
              rebuild, refreshVars, recentFiles>>

\* renameId(zettel, newId) for the note of the file called name
RenameId ==
  \E newId \in NewIds :
    /\ parseZettelId2(name).ok
    /\ moveCall' = [fn |-> "renameId", old |-> name, newId |-> newId,
                    renamed |-> RenamedBasename(ZettelNode(name), newId)]
    /\ RenameFrame

\* handleFileDrop for the dragged file called name, from the generated id on
HandleFileDrop ==
  \E newId \in NewIds :
    /\ moveCall' = [fn |-> "handleFileDrop", old |-> name, newId |-> newId,
                    renamed |-> DroppedBasename(name, newId)]
    /\ RenameFrame

NextRename == RenameId \/ HandleFileDrop

SpecRename == InitRename /\ [][NextRename]_vars

\* where the first hyphen of s stands, 0 when it has none
FirstHyphen(s) ==
  IF \E k \in 1..Len(s) : s[k] = "-"
  THEN CHOOSE k \in 1..Len(s) : s[k] = "-" /\ \A m \in 1..(k - 1) : s[m] # "-"
  ELSE 0

\* the text after the first hyphen
AfterHyphen(s) == SubSeq(s, FirstHyphen(s) + 1, Len(s))

\* n spaces
Spaces(n) == [k \in 1..n |-> " "]

\* C25 as stated: the new name is the new id, a hyphen and the text after the
\* first hyphen of the old basename, character for character (basenames with
\* a hyphen after their first character)
C25_TitleKeptCharForChar ==
  (moveCall.fn \in {"renameId", "handleFileDrop"} /\ FirstHyphen(moveCall.old) > 1) =>
    moveCall.renamed = moveCall.newId \o <<"-">> \o AfterHyphen(moveCall.old)

\* C25, amended: the new name is the new id, a hyphen and a title; when the
\* old basename has a hyphen after its first character, the title is the text
\* after the first hyphen without the spaces at its two ends, further hyphens
\* and inner spaces kept; else the title is empty for a basename that is an
\* identifier and the whole basename for any other
C25_TitleKeptButTrimmed ==
  moveCall.fn \in {"renameId", "handleFileDrop"} =>
    /\ StartsWith(moveCall.renamed, moveCall.newId \o <<"-">>)
    /\ LET title == SubSeq(moveCall.renamed, Len(moveCall.newId) + 2, Len(moveCall.renamed))
           rest == AfterHyphen(moveCall.old)
       IN  IF FirstHyphen(moveCall.old) > 1
           THEN /\ title = <<>> \/ (title[1] # " " /\ title[Len(title)] # " ")
                /\ \E i, j \in 0..Len(rest) :
                     /\ i + Len(title) + j = Len(rest)
                     /\ rest = Spaces(i) \o title \o Spaces(j)
           ELSE IF IsIdentifier(moveCall.old) THEN title = <<>>
           ELSE title = moveCall.old

\* a title with a space before it and a further hyphen was carried over
C25_Witness ==
  /\ moveCall.fn = "renameId"
  /\ moveCall.old = <<"a", "-", " ", "-">>
  /\ moveCall.renamed = <<"b", "-", "-">>

(***************************************************************************)
(* The files opened last (view.ts)                                         *)
(***************************************************************************)
\* the paths of the notes the user opens
RecentPaths == {"a.md", "a1.md", "a1a.md", "a2.md", "b.md"}

\* how many paths updateRecentFiles keeps
RecentLimit == 5

\* updateRecentFiles(filePath): filter, unshift, slice
updateRecentFiles(recent, filePath) ==
  LET unshifted == <<filePath>> \o SelectSeq(recent, LAMBDA path : path # filePath)
  IN  IF Len(unshifted) > RecentLimit THEN SubSeq(unshifted, 1, RecentLimit) ELSE unshifted

InitRecent ==
  /\ recentFiles = <<>>
  /\ name = <<>> /\ moveCall = NoMove /\ parseCall = NoCall
  /\ ida = Null /\ idb = Null /\ cmpCall = NoCompare
  /\ letters = <<>> /\ nextCall = NoCall
  /\ files = {} /\ zettelCache = <<>> /\ genCall = NoCall /\ ops = 0 /\ oldCall = NoCall
  /\ links = {} /\ keyOrder = <<>> /\ settings = DEFAULT_SETTINGS
  /\ tree = Null /\ rebuild = [done |-> FALSE]
  /\ collapsedIds = {} /\ shown = {}
  /\ now = 0 /\ timers = {} /\ refreshTimeout = 0 /\ isRefreshing = FALSE
  /\ running = 0 /\ pending = 0 /\ log = [runs |-> 0]

\* a click on an entry opens its file: updateRecentFiles(zettel.file.path)
UpdateRecentFiles ==
  \E filePath \in RecentPaths :
    /\ recentFiles' = updateRecentFiles(recentFiles, filePath)
    /\ UNCHANGED <<name, parseCall, ida, idb, cmpCall, letters, nextCall, files, zettelCache,
                   genCall, ops, oldCall, links, keyOrder, settings, tree, collapsedIds,
                   shown, rebuild, refreshVars, moveCall>>

NextRecent == UpdateRecentFiles

SpecRecent == InitRecent /\ [][NextRecent]_vars

\* C26: recentFiles never holds a path twice and never more than 3 paths, and
\* a path that comes in stands first, before the paths that stay in the
\* order they had
C26_ThreeMostRecent ==
  [][/\ Len(recentFiles') <= 3
     /\ \A i, j \in 1..Len(recentFiles') : recentFiles'[i] = recentFiles'[j] => i = j
     /\ \A i, j \in 2..Len(recentFiles') :
          i < j => \E m, n \in 1..Len(recentFiles) :
                     /\ m < n
                     /\ recentFiles[m] = recentFiles'[i]
                     /\ recentFiles[n] = recentFiles'[j]]_vars

(***************************************************************************)
(* Claims about the list of the link graph view                            *)
(***************************************************************************)
RECURSIVE Sum(_)
Sum(ns) == IF Len(ns) = 0 THEN 0 ELSE ns[1] + Sum(Tail(ns))

RECURSIVE Size(_)
\* the number of nodes of a subtree
Size(node) == 1 + Sum([i \in 1..Len(node.children) |-> Size(node.children[i])])

\* where child i of the entry at position k stands in a pre-order list
ChildPosition(k, children, i) ==
  k + 1 + Sum([j \in 1..(i - 1) |-> Size(children[j])])

\* the positions of the entries of the list that stand below no other entry
TopPositions ==
  {k \in 1..Len(zettelCache) :
     \A p \in 1..(k - 1) : k >= p + Size(zettelCache[p])}

\* no file that only links to the parent stands before one the parent links back to
MutualFirst(parent, childFiles) ==
  \A i, j \in 1..Len(childFiles) :
    (i < j /\ <<parent, childFiles[j]>> \in links) => <<parent, childFiles[i]>> \in links

\* C27: the list is the tree in pre-order without the root: every entry is
\* followed by its subtree, child after child, the children the parent links
\* back to first; the children of the root have level 0 and every other node
\* has the level of its parent plus 1
C27_PreOrderLevelsFromZero ==
  LET root == RootFile([files |-> files], settings)
  IN  /\ \A k \in 1..Len(zettelCache) :
           /\ zettelCache[k].file # root
           /\ k + Size(zettelCache[k]) - 1 <= Len(zettelCache)
           /\ \A i \in 1..Len(zettelCache[k].children) :
                /\ zettelCache[ChildPosition(k, zettelCache[k].children, i)]
                     = zettelCache[k].children[i]
                /\ zettelCache[k].children[i].level = zettelCache[k].level + 1
           /\ MutualFirst(zettelCache[k].file,
                          [i \in 1..Len(zettelCache[k].children) |->
                             zettelCache[k].children[i].file])
      /\ \A k \in TopPositions :
           /\ zettelCache[k].level = 0
           /\ <<zettelCache[k].file, root>> \in links
      /\ \A k, m \in TopPositions :
           (k < m /\ <<root, zettelCache[m].file>> \in links)
             => <<root, zettelCache[k].file>> \in links

\* the root has a child it links back to, which has a child of its own, and
\* after them a child that only links to the root
C27_Witness ==
  /\ Len(zettelCache) = 3
  /\ zettelCache[1].level = 0 /\ zettelCache[2].level = 1 /\ zettelCache[3].level = 0
  /\ zettelCache[1].children = <<zettelCache[2]>>
  /\ <<RootFile([files |-> files], settings), zettelCache[1].file>> \in links
  /\ <<RootFile([files |-> files], settings), zettelCache[3].file>> \notin links

(***************************************************************************)
(* Claims about the ids and the paths of buildZettelkastenTree             *)
(***************************************************************************)
MaxChildIndex == 60

RECURSIVE IdsBelow(_)
RECURSIVE IdsOfAll(_, _)
\* the ids of the nodes of a list of children and of the nodes below them
IdsOfAll(nodes, i) ==
  IF i > Len(nodes) THEN <<>> ELSE IdsBelow(nodes[i]) \o IdsOfAll(nodes, i + 1)

\* the ids of a subtree, node by node
IdsBelow(node) ==
  <<node.id>> \o IdsOfAll(node.mutuals, 1) \o IdsOfAll(node.backlinks, 1)
              \o IdsOfAll(node.outgoings, 1)

\* the suffixes of the children of one list differ from index to index
SuffixesDiffer ==
  \A i, j \in 0..MaxChildIndex :
    i # j => /\ getLetterSequenceFromIndex(i) # getLetterSequenceFromIndex(j)
             /\ toString(i + 1) # toString(j + 1)

\* C29: no two nodes of a built tree have the same id, the id of a child
\* starts with the id of its parent and is longer, and the suffixes the
\* children of one list get are different for different indexes
C29_IdsDistinctBelowParentId ==
  /\ SuffixesDiffer
  /\ tree.ok =>
       /\ \A i, j \in 1..Len(IdsBelow(tree.node)) :
            IdsBelow(tree.node)[i] = IdsBelow(tree.node)[j] => i = j
       /\ \A n \in TreeNodes : \A c \in Children(n.node) :
            StartsWith(c.id, n.node.id) /\ Len(c.id) > Len(n.node.id)

\* the root has two backlink children; the second is a backlink child of the
\* first and has the first as its outgoing child
C29_Witness ==
  /\ tree.ok /\ Len(tree.node.backlinks) = 2
  /\ Len(tree.node.backlinks[1].backlinks) = 1
  /\ Len(tree.node.backlinks[2].outgoings) = 1
  /\ Len(IdsBelow(tree.node)) = 5

\* C30: on no path of a built tree a file stands twice: the file of the root
\* is the file of no other node, and a file that links to itself is not among
\* the children of its own node
C30_NoFileTwiceOnAPath ==
  tree.ok =>
    \A n \in TreeNodes :
      /\ n.node.file \notin n.ancestors
      /\ n.ancestors # {} => n.node.file # tree.node.file
      /\ <<n.node.file, n.node.file>> \in links =>
           \A c \in Children(n.node) : c.file # n.node.file

\* every file links to itself and to the root, the root links back to one
C30_Witness ==
  /\ tree.ok /\ files = TreeNames
  /\ \A f \in files : <<f, f>> \in links /\ <<f, tree.node.file>> \in links
  /\ Len(tree.node.mutuals) = 1 /\ Len(tree.node.backlinks) = 1

====
